---- MODULE Spec2Model ----
(***************************************************************************)
(* Model of the unifi-scraper order synchronisation:                       *)
(*   - scrape_orders.py   : the sync run (pagination, skip/fetch decision, *)
(*                          immediate persistence, end-of-run sort)        *)
(*   - gsheets_writer.py  : build_index / upsert_rows / sort / ensure_tab  *)
(*   - api_server.py      : POST /jobs registry and /scrape_full locks     *)
(*   - login_manager.py   : session reuse versus fresh login               *)
(* Each subsystem has its own specification over the shared variables.     *)
(***************************************************************************)
EXTENDS Naturals, Integers, Sequences, FiniteSets, TLC

VARIABLES
    \* ---- persistent destinations -------------------------------------
    sheet,            \* data rows of the month tab (rows 2.. of the worksheet)
    header,           \* first row of the tab: "ok" (= HEADERS), "none" (blank)
    csv,              \* data rows of the CSV file re-used under one file name
    checkpoint,       \* the CSV checkpoint file: [exists, completed, incomplete]
    now,              \* process-local clock (datetime.now()), coarse
    \* ---- one sync run (scrape_orders_month) --------------------------
    pc,               \* "idle" | "read" | "rows" | "next" | "finish"
    output_format,    \* "sheets" | "csv"
    full_sync,        \* BOOLEAN
    complete_orders,  \* keys of the dict complete_orders
    incomplete_orders,\* keys of the dict incomplete_orders
    seen_ids,         \* per-run dedupe set
    order_items,      \* local variable order_items: "unbound" or the order whose payload bound it
    listing,          \* the portal's order list for the month, page by page
    uiPage,           \* page the portal UI is really showing
    page_number,      \* the driver's page counter
    order_rows,       \* rows read from the visible page
    row_idx,          \* position in the for loop over order_rows (1-based)
    total_scraped, success_count, error_count, skipped_count,
    \* ---- history of the current run (observation only) ---------------
    runs,             \* number of runs started
    pageReads,        \* number of pages read in this run
    fetchCount,       \* order -> number of detail fetches opened in this run
    listed,           \* orders seen in rows read in this run
    complete0,        \* complete set as loaded at the start of this run
    sheet0,           \* tab rows when the per-order loop started
    csv0,             \* CSV rows when the per-order loop started
    written,          \* order -> row written in this run (<<>> when none)
    runOutcome,       \* what the last call of scrape_orders_month did: "none" before
                      \* any call, "running", "returned", or the text of the
                      \* exception that left it
    loopExit,         \* how the page loop was left, "none" while it runs
    nextClicks,       \* clicks on the Next control in this run
    openTabs,         \* detail tabs (secondary pages) currently open
    noData,           \* orders whose detail fetch returned no payload in this run
    retry,            \* destination -> orders left without payload and not saved since
    retry0,           \* retry of this run's destination when the run started
    writeAttempts,    \* order -> calls of upsert_rows / CSV append in this run
    faults,           \* failures of the portal, the network or the process so far
    \* ---- upsert_rows applied to a tab (gsheets_writer.py) ------------
    tab,              \* data rows of a worksheet
    tab0,             \* the rows before the first upsert
    tabMid,           \* the rows after the first upsert
    upApplied,        \* the rows passed to upsert_rows so far, one call each
    \* ---- POST /jobs (api_server.py) ----------------------------------
    JOBS,             \* job registry: job id -> status
    reqPc,            \* request thread -> position in create_job
    \* ---- POST /scrape_full (api_server.py) ---------------------------
    scrape_locks,     \* lock key -> TRUE when the Lock is held
    fullPc,           \* request thread -> position in scrape_full
    fullKey,          \* request thread -> lock_key of its request
    ranSync,          \* request thread -> it has called scrape_month
    busyAtAcquire,    \* request thread -> the lock was held when it tried
    \* ---- login_and_get_context (login_manager.py) --------------------
    session,          \* sessions/session_cache.json
    clock,            \* time.time(), seconds
    ticks,            \* number of clock advances so far
    lpc,              \* "idle" | "probe" | "fresh" | "otp" | "reused" | "fresh_ok"
                      \* | "no_otp" | "failed"
    loadClock,        \* time.time() read by load_session in this login
    probe,            \* outcome of the cached-session test, "none" before it
    otpA,             \* the Telegram group gets a new code within max_wait
    otpB,             \* the Gmail inbox gets a code within its max_wait
    ctxCookies,       \* context.cookies() is non-empty
    authAt,           \* time.time() when the context was handed to the caller
    \* ---- date normalization (scrape_orders.py, date_utils.py) --------
    stamp,            \* the 14-digit text handed to the formatter
    padY,             \* strftime("%Y") of this build pads the year to four digits
    dpc,              \* "start" | "formatted" | "parsed" | "again"
    dtext,            \* the formatter's output
    reparsed,         \* strptime(dtext, "%d %b %Y %H:%M")
    dtext2,           \* standardize_date(dtext)
    \* ---- OTP readers (telegram_otp_reader.py, gmail_otp_reader.py) ---
    reader,           \* "telegram" | "gmail": whose get_latest_otp is running
    inbox,            \* messages of the group / the mailbox, in order of arrival
    oclock,           \* time.time(), seconds
    start_time,       \* time.time() when the polling started
    opc,              \* "idle" | "loop" | "done"
    otp,              \* the value returned ("none" for None)
    otpTs,            \* timestamp of the message the returned code came from
    polls,            \* inbox checks made so far
    \* ---- month tabs of the spreadsheet (gsheets_writer.py) ----------
    tabs,             \* tab title -> the worksheet: exists, first row, data rows
    call              \* the last ensure_tab call: title, tab before and after, outcome

destVars  == <<sheet, header, csv, checkpoint, now>>
runVars   == <<pc, output_format, full_sync, complete_orders, incomplete_orders,
               seen_ids, order_items, listing, uiPage, page_number, order_rows,
               row_idx, total_scraped, success_count, error_count, skipped_count>>
histVars  == <<runs, pageReads, fetchCount, listed, complete0, sheet0, csv0, written>>
obsVars   == <<runOutcome, loopExit, nextClicks, openTabs, noData, retry, retry0,
               writeAttempts, faults>>
syncVars  == <<destVars, runVars, histVars, obsVars>>
upVars    == <<tab, tab0, tabMid, upApplied>>
jobVars   == <<JOBS, reqPc>>
lockVars  == <<scrape_locks, fullPc, fullKey, ranSync, busyAtAcquire>>
loginVars == <<session, clock, ticks, lpc, loadClock, probe, otpA, otpB, ctxCookies, authAt>>
dateVars  == <<stamp, padY, dpc, dtext, reparsed, dtext2>>
otpVars   == <<reader, inbox, oclock, start_time, opc, otp, otpTs, polls>>
tabVars   == <<tabs, call>>
auxVars   == <<dateVars, otpVars, tabVars>>
vars      == <<syncVars, upVars, jobVars, lockVars, loginVars, auxVars>>

-----------------------------------------------------------------------------
(* Bounds *)
MaxRuns      == 2     \* sync runs per behaviour
MaxPageReads == 3     \* pages read per run (a frozen page can repeat for ever)
MaxFaults    == 2     \* failures injected per behaviour (timeouts, API errors, kills)

(* Orders of the portal.  Order numbers are opaque text. *)
O1 == "2025103112345"
O2 == "2025103112346"
O3 == "2025103112347"
Orders == {O1, O2, O3}

(* A cell text with the legacy apostrophe prefix. *)
Quote(s) == "'" \o s

(* str.lstrip("'") on an order-number cell. *)
LStrip(s) == IF \E o \in Orders : s = Quote(o)
             THEN CHOOSE o \in Orders : s = Quote(o)
             ELSE s

(* value_input_option="USER_ENTERED": a leading apostrophe marks the cell as
   text and is not part of the stored value. *)
UserEntered(s) == LStrip(s)

(* What the portal shows for an order in the list (cells 4, 5) and whether
   its detail payload carries installationInfoList[0].displayAddress.
   Dates are ordinals; 0 is the empty / unparsable date. *)
CreatedDate(o) == IF o = O1 THEN 2 ELSE IF o = O2 THEN 0 ELSE 1
UpdatedDate(o) == IF o = O1 THEN 9 ELSE 1
HasDisplayAddress(o) == o # O2

Row(num, created, addr, synced) ==
    [num |-> num, created |-> created, addr |-> addr, synced |-> synced]

(* The listings the portal may serve: a later page can repeat an order
   (the list shifts while the run is paging). *)
Listings == { << <<O1, O2>>, <<O2, O3>> >>,
              << <<O2, O1>>, <<O3>> >> }

(* Tabs a run may start from: produced by earlier runs of this program
   (Last Synced set), by its older versions (apostrophe prefix, rows without
   Last Synced). *)
InitTabs == { <<>>,
              << Row(Quote(O1), 2, O1, 1) >>,
              << Row(O1, 2, O1, 1), Row(O2, 0, "", 0) >> }

-----------------------------------------------------------------------------
(* gsheets_writer.py *)

Max(S) == CHOOSE m \in S : \A n \in S : n <= m

RowKey(r) == LStrip(r.num)

(* build_index: order number -> worksheet row (1-based, header is row 1);
   a later row with the same key replaces the earlier entry. *)
build_index(records) ==
    LET keys == { RowKey(records[i]) : i \in {j \in 1..Len(records) : records[j].num # ""} }
    IN [k \in keys |->
          1 + Max({i \in 1..Len(records) : records[i].num # "" /\ RowKey(records[i]) = k})]

Stored(r) == [r EXCEPT !.num = UserEntered(r.num)]

(* upsert_rows: rows whose key is in the index overwrite that worksheet row
   (batch_update), the others are appended (append_rows). *)
upsert_rowsMut(ws, rows) ==
    ws \o [j \in 1..Len(rows) |-> Stored(rows[j])]
upsert_rows(ws, rows) ==
    LET index == build_index(ws)
        usable == SelectSeq(rows, LAMBDA r : RowKey(r) # "")
        upd    == SelectSeq(usable, LAMBDA r : RowKey(r) \in DOMAIN index)
        app    == SelectSeq(usable, LAMBDA r : RowKey(r) \notin DOMAIN index)
        hits(i) == {j \in 1..Len(upd) : index[RowKey(upd[j])] = i + 1}
    IN [i \in 1..Len(ws) |->
            IF hits(i) # {} THEN Stored(upd[Max(hits(i))]) ELSE ws[i]]
       \o [j \in 1..Len(app) |-> Stored(app[j])]

(* parse_date_for_sort: empty and unparsable dates give the smallest key. *)
parse_date_for_sort(r) == r.created

RECURSIVE InsertDesc(_, _)
InsertDesc(r, s) ==
    IF s = <<>> THEN <<r>>
    ELSE IF parse_date_for_sort(Head(s)) >= parse_date_for_sort(r)
         THEN <<Head(s)>> \o InsertDesc(r, Tail(s))
         ELSE <<r>> \o s

RECURSIVE SortedDesc(_)
(* sorted(data_rows, key=parse_date_for_sort, reverse=True): stable. *)
SortedDesc(s) ==
    IF s = <<>> THEN <<>>
    ELSE InsertDesc(s[Len(s)], SortedDesc(SubSeq(s, 1, Len(s) - 1)))

(* check_existing_orders_with_dates *)
CompleteOf(records) ==
    { RowKey(records[i]) : i \in {j \in 1..Len(records) :
                                     records[j].num # "" /\ records[j].synced # 0} }
IncompleteOfMut(records) ==
    { RowKey(records[i]) : i \in {j \in 1..Len(records) : records[j].num # ""} }
IncompleteOf(records) ==
    { RowKey(records[i]) : i \in {j \in 1..Len(records) :
                                     records[j].num # "" /\ records[j].synced = 0} }

-----------------------------------------------------------------------------
(* scrape_orders.py: scrape_orders_month *)

(* should_rescrape_order: the updated date is accepted and not consulted. *)
should_rescrape_order(order_id, ui_updated_date, complete) ==
    order_id \notin complete

(* The skip test of the per-order loop: `order_id in complete_orders`. *)
AlreadySyncedMut(order_id, complete) == order_id \in complete /\ ~full_sync
AlreadySynced(order_id, complete) == order_id \in complete

(* Per-run dedupe: `order_id in seen_ids`. *)
AlreadySeenMut(order_id, seen) == FALSE
AlreadySeen(order_id, seen) == order_id \in seen

(* found_old_order is set to False before the loop and never assigned again. *)
found_old_order == FALSE

(* Early exit test after the rows of a page:
   skipped_count / max(1, total_scraped + skipped_count) > 0.8 *)
EarlyExit ==
    /\ ~full_sync
    /\ found_old_order
    /\ page_number > 1
    /\ LET denom == IF total_scraped + skipped_count < 1 THEN 1
                    ELSE total_scraped + skipped_count
       IN  10 * skipped_count > 8 * denom

(* RuntimeError raised by login_and_get_context when no code was obtained. *)
OtpError == "Failed to retrieve OTP from Telegram"

(* Exceptions that reach the except clause of _run_job. *)
JobErrors == {OtpError, "month_text and year are required"}

(* _run_job's record after scrape_month: exc = "" when it returned. *)
JobOutcomeMut(exc) ==
    IF exc = "" THEN [status |-> "done", error |-> ""]
    ELSE [status |-> "running", error |-> exc]
JobOutcome(exc) ==
    IF exc = "" THEN [status |-> "done", error |-> ""]
    ELSE [status |-> "error", error |-> exc]

NoRow == <<>>

(* POST /scrape around scrape_orders_month: jsonify(result), or the except
   clause's 500; exc = "" when the call returned. *)
ScrapeResponseMut(exc) ==
    [code |-> 200, success |-> exc = "", error |-> exc, message |-> ""]
ScrapeResponse(exc) ==
    IF exc = ""
    THEN [code |-> 200, success |-> TRUE, error |-> "", message |-> ""]
    ELSE [code |-> 500, success |-> FALSE, error |-> exc, message |-> "Scraping failed"]


SyncInit ==
    /\ sheet \in InitTabs
    /\ header = "ok"
    /\ csv = <<>>
    /\ checkpoint = [exists |-> FALSE, completed |-> {}, incomplete |-> {}]
    /\ now = 1
    /\ pc = "idle"
    /\ output_format = "sheets"
    /\ full_sync = TRUE
    /\ complete_orders = {}
    /\ incomplete_orders = {}
    /\ seen_ids = {}
    /\ order_items = "unbound"
    /\ listing = << <<O1, O2>>, <<O2, O3>> >>
    /\ uiPage = 1
    /\ page_number = 1
    /\ order_rows = <<>>
    /\ row_idx = 1
    /\ total_scraped = 0 /\ success_count = 0
    /\ error_count = 0 /\ skipped_count = 0
    /\ runs = 0
    /\ pageReads = 0
    /\ fetchCount = [o \in Orders |-> 0]
    /\ listed = {}
    /\ complete0 = {}
    /\ sheet0 = <<>>
    /\ csv0 = <<>>
    /\ written = [o \in Orders |-> NoRow]
    /\ runOutcome = "none"
    /\ loopExit = "none"
    /\ nextClicks = 0
    /\ openTabs = 0
    /\ noData = {}
    /\ retry = [f \in {"sheets", "csv"} |-> {}]
    /\ retry0 = {}
    /\ writeAttempts = [o \in Orders |-> 0]
    /\ faults = 0

(* A step in which the environment fails (a wait times out, an API call
   raises, the process is stopped), and a step in which it does not. *)
Fault == faults < MaxFaults /\ faults' = faults + 1
NoFault == UNCHANGED faults

(* Login succeeded; output prepared (ensure_tab), filters set, existing
   orders loaded, counters initialised; the loop is about to read page 1. *)
StartRun(fmt, fs, lst) ==
    /\ NoFault
    /\ pc = "idle"
    /\ runs < MaxRuns
    /\ runOutcome' = "running"
    /\ loopExit' = "none"
    /\ nextClicks' = 0
    /\ openTabs' = 0
    /\ noData' = {}
    /\ retry0' = retry[fmt]
    /\ writeAttempts' = [o \in Orders |-> 0]
    /\ UNCHANGED retry
    /\ runs' = runs + 1
    /\ now' = now + 1
    /\ output_format' = fmt
    /\ full_sync' = fs
    /\ listing' = lst
    /\ IF fmt = "sheets"
       THEN /\ header' = "ok"
            /\ sheet' = IF header = "ok" THEN sheet ELSE <<>>
            /\ complete_orders' = CompleteOf(sheet')
            /\ incomplete_orders' = IncompleteOf(sheet')
       ELSE /\ UNCHANGED <<header, sheet>>
            /\ complete_orders' = IF checkpoint.exists THEN checkpoint.completed ELSE {}
            /\ incomplete_orders' = IF checkpoint.exists THEN checkpoint.incomplete ELSE {}
    /\ UNCHANGED <<csv, checkpoint>>
    /\ seen_ids' = {}
    /\ order_items' = "unbound"
    /\ uiPage' = 1
    /\ page_number' = 1
    /\ order_rows' = <<>>
    /\ row_idx' = 1
    /\ total_scraped' = 0 /\ success_count' = 0
    /\ error_count' = 0 /\ skipped_count' = 0
    /\ pageReads' = 0
    /\ fetchCount' = [o \in Orders |-> 0]
    /\ listed' = {}
    /\ complete0' = complete_orders'
    /\ sheet0' = sheet'
    /\ csv0' = csv
    /\ written' = [o \in Orders |-> NoRow]
    /\ pc' = "read"
    /\ UNCHANGED <<auxVars, upVars, jobVars, lockVars, loginVars>>

(* login_and_get_context raises (no OTP): the call stands before the try
   block of scrape_orders_month, so the exception leaves it at once. *)
LoginFailed(fmt, fs) ==
    /\ Fault
    /\ pc = "idle"
    /\ runs < MaxRuns
    /\ runs' = runs + 1
    /\ output_format' = fmt
    /\ full_sync' = fs
    /\ runOutcome' = OtpError
    /\ complete_orders' = {} /\ incomplete_orders' = {} /\ seen_ids' = {}
    /\ order_items' = "unbound"
    /\ uiPage' = 1 /\ page_number' = 1
    /\ order_rows' = <<>> /\ row_idx' = 1
    /\ total_scraped' = 0 /\ success_count' = 0
    /\ error_count' = 0 /\ skipped_count' = 0
    /\ pageReads' = 0
    /\ fetchCount' = [o \in Orders |-> 0]
    /\ listed' = {}
    /\ complete0' = IF fmt = "sheets" THEN CompleteOf(sheet)
                    ELSE IF checkpoint.exists THEN checkpoint.completed ELSE {}
    /\ sheet0' = sheet
    /\ csv0' = csv
    /\ written' = [o \in Orders |-> NoRow]
    /\ loopExit' = "none"
    /\ nextClicks' = 0
    /\ noData' = {}
    /\ retry0' = {}
    /\ writeAttempts' = [o \in Orders |-> 0]
    /\ UNCHANGED <<destVars, pc, listing, openTabs, retry>>
    /\ UNCHANGED <<auxVars, upVars, jobVars, lockVars, loginVars>>

(* Top of the while loop: wait for the table and read the visible rows. *)
ReadPage ==
    /\ NoFault
    /\ pc = "read"
    /\ order_rows' = listing[uiPage]
    /\ row_idx' = 1
    /\ listed' = listed \cup {listing[uiPage][i] : i \in 1..Len(listing[uiPage])}
    /\ pageReads' = pageReads + 1
    /\ pc' = "rows"
    /\ UNCHANGED <<auxVars, upVars, jobVars, lockVars, loginVars>>
    /\ UNCHANGED <<destVars, output_format, full_sync, complete_orders,
                   incomplete_orders, seen_ids, order_items, listing, uiPage,
                   page_number, total_scraped, success_count, error_count,
                   skipped_count, runs, fetchCount, complete0, sheet0, csv0, written,
                   runOutcome, loopExit, nextClicks, openTabs, noData, retry, retry0,
                   writeAttempts>>

(* wait_for_selector on the table times out: "Page error", break. *)
ReadPageFail ==
    /\ Fault
    /\ pc = "read"
    /\ pc' = "finish"
    /\ loopExit' = "page_error"
    /\ UNCHANGED <<auxVars, upVars, jobVars, lockVars, loginVars>>
    /\ UNCHANGED <<destVars, output_format, full_sync, complete_orders,
                   incomplete_orders, seen_ids, order_items, listing, uiPage,
                   page_number, order_rows, row_idx, total_scraped, success_count,
                   error_count, skipped_count, histVars, runOutcome, nextClicks,
                   openTabs, noData, retry, retry0, writeAttempts>>

InRow == pc = "rows" /\ row_idx <= Len(order_rows)
CurOrder == order_rows[row_idx]

RowFrame == UNCHANGED <<auxVars, upVars, jobVars, lockVars, loginVars, output_format, full_sync, listing, uiPage, page_number,
                        order_rows, now, header, runs, pageReads, listed, complete0,
                        sheet0, csv0, runOutcome, loopExit, nextClicks, retry0>>

(* order_id in complete_orders: count the skip and continue. *)
RowSkipComplete ==
    /\ NoFault
    /\ InRow
    /\ AlreadySynced(CurOrder, complete_orders)
    /\ skipped_count' = skipped_count + 1
    /\ row_idx' = row_idx + 1
    /\ RowFrame
    /\ UNCHANGED <<pc, sheet, csv, checkpoint, complete_orders, incomplete_orders,
                   seen_ids, order_items, total_scraped, success_count, error_count,
                   fetchCount, written, openTabs, noData, retry, writeAttempts>>

(* order_id in seen_ids: continue without counting. *)
RowSkipSeen ==
    /\ NoFault
    /\ InRow
    /\ ~AlreadySynced(CurOrder, complete_orders)
    /\ AlreadySeen(CurOrder, seen_ids)
    /\ row_idx' = row_idx + 1
    /\ RowFrame
    /\ UNCHANGED <<pc, sheet, csv, checkpoint, complete_orders, incomplete_orders,
                   seen_ids, order_items, total_scraped, success_count, error_count,
                   skipped_count, fetchCount, written, openTabs, noData, retry,
                   writeAttempts>>

(* The row is fetch-eligible: it is marked seen and counted, and
   fetch_order_json_via_new_tab opens a detail tab for it (ctx.new_page()). *)
OpenDetail ==
    /\ NoFault
    /\ InRow
    /\ ~AlreadySynced(CurOrder, complete_orders)
    /\ ~AlreadySeen(CurOrder, seen_ids)
    /\ seen_ids' = seen_ids \cup {CurOrder}
    /\ total_scraped' = total_scraped + 1
    /\ fetchCount' = [fetchCount EXCEPT ![CurOrder] = @ + 1]
    /\ openTabs' = openTabs + 1
    /\ pc' = "detail"
    /\ RowFrame
    /\ UNCHANGED <<sheet, csv, checkpoint, complete_orders, incomplete_orders,
                   order_items, row_idx, success_count, error_count, skipped_count,
                   written, noData, retry, writeAttempts>>

(* The detail tab is open for the current row.  Whatever follows, the finally
   block of fetch_order_json_via_new_tab closes the tab, and the for loop
   goes on with the next row. *)
Fetching ==
    /\ pc = "detail"
    /\ openTabs' = openTabs - 1
    /\ row_idx' = row_idx + 1
    /\ pc' = "rows"
    /\ RowFrame
    /\ UNCHANGED <<seen_ids, total_scraped, fetchCount>>

(* No getCeeOrderDetail payload within the wait: recorded as incomplete,
   `continue` (error_count is not touched). *)
RowNoApiDataMut ==
    /\ Fault
    /\ Fetching
    /\ incomplete_orders' = incomplete_orders \cup {CurOrder}
    /\ noData' = noData \cup {CurOrder}
    /\ retry' = [retry EXCEPT ![output_format] = @ \cup {CurOrder}]
    /\ IF output_format = "sheets"
       THEN /\ sheet' = upsert_rows(sheet, <<Row(Quote(CurOrder), CreatedDate(CurOrder), "", 0)>>)
            /\ UNCHANGED csv
       ELSE /\ csv' = Append(csv, Row(CurOrder, CreatedDate(CurOrder), "", 0))
            /\ UNCHANGED sheet
    /\ UNCHANGED <<checkpoint, complete_orders, order_items,
                   success_count, error_count, skipped_count, written, writeAttempts>>
RowNoApiData ==
    /\ Fault
    /\ Fetching
    /\ incomplete_orders' = incomplete_orders \cup {CurOrder}
    /\ noData' = noData \cup {CurOrder}
    /\ retry' = [retry EXCEPT ![output_format] = @ \cup {CurOrder}]
    /\ UNCHANGED <<sheet, csv, checkpoint, complete_orders, order_items,
                   success_count, error_count, skipped_count, written, writeAttempts>>

(* The detail tab raises (page.goto timeout): caught by the per-order except,
   which counts the failure. *)
RowFetchErrorMut ==
    /\ Fault
    /\ Fetching
    /\ UNCHANGED <<sheet, csv, checkpoint, complete_orders, incomplete_orders,
                   order_items, success_count, error_count, skipped_count, written,
                   noData, retry, writeAttempts>>
RowFetchError ==
    /\ Fault
    /\ Fetching
    /\ error_count' = error_count + 1
    /\ UNCHANGED <<sheet, csv, checkpoint, complete_orders, incomplete_orders,
                   order_items, success_count, skipped_count, written,
                   noData, retry, writeAttempts>>

(* The address fallback reads order_items before this iteration assigned it:
   UnboundLocalError on the first payload without a display address. *)
RowExtractError ==
    /\ NoFault
    /\ Fetching
    /\ ~HasDisplayAddress(CurOrder)
    /\ order_items = "unbound"
    /\ error_count' = error_count + 1
    /\ UNCHANGED <<sheet, csv, checkpoint, complete_orders, incomplete_orders,
                   order_items, success_count, skipped_count, written,
                   noData, retry, writeAttempts>>

Extractable == HasDisplayAddress(CurOrder) \/ order_items # "unbound"

(* The normalized row: address from the payload's display address, else from
   the order items held in order_items at that point. *)
row_data(order_id) ==
    Row(IF output_format = "sheets" THEN Quote(order_id) ELSE order_id,
        CreatedDate(order_id),
        IF HasDisplayAddress(order_id) THEN order_id ELSE order_items,
        now)

(* upsert_rows raises (spreadsheet API error) on its one call: caught by the
   per-order except, counted, and the loop goes on. *)
RowWriteFail ==
    /\ Fault
    /\ Fetching
    /\ Extractable
    /\ output_format = "sheets"
    /\ order_items' = CurOrder
    /\ error_count' = error_count + 1
    /\ writeAttempts' = [writeAttempts EXCEPT ![CurOrder] = @ + 1]
    /\ UNCHANGED <<sheet, csv, checkpoint, complete_orders, incomplete_orders,
                   success_count, skipped_count, written, noData, retry>>

(* Saved immediately: upsert into the tab, or append to the CSV and rewrite
   the checkpoint; the order becomes complete. *)
RowSaved ==
    /\ NoFault
    /\ Fetching
    /\ Extractable
    /\ order_items' = CurOrder
    /\ complete_orders' = complete_orders \cup {CurOrder}
    /\ incomplete_orders' = incomplete_orders \ {CurOrder}
    /\ success_count' = success_count + 1
    /\ writeAttempts' = [writeAttempts EXCEPT ![CurOrder] = @ + 1]
    /\ retry' = [retry EXCEPT ![output_format] = @ \ {CurOrder}]
    /\ IF output_format = "sheets"
       THEN /\ sheet' = upsert_rows(sheet, <<row_data(CurOrder)>>)
            /\ written' = [written EXCEPT ![CurOrder] = Stored(row_data(CurOrder))]
            /\ UNCHANGED <<csv, checkpoint>>
       ELSE /\ csv' = Append(csv, row_data(CurOrder))
            /\ checkpoint' = [exists |-> TRUE, completed |-> complete_orders',
                              incomplete |-> incomplete_orders']
            /\ written' = [written EXCEPT ![CurOrder] = row_data(CurOrder)]
            /\ UNCHANGED sheet
    /\ UNCHANGED <<error_count, skipped_count, noData>>

(* All rows of the page handled: early-exit test, else go for the next page. *)
PageEnd ==
    /\ NoFault
    /\ pc = "rows"
    /\ row_idx > Len(order_rows)
    /\ pc' = IF EarlyExit THEN "finish" ELSE "next"
    /\ loopExit' = IF EarlyExit THEN "early_exit" ELSE loopExit
    /\ UNCHANGED <<auxVars, upVars, jobVars, lockVars, loginVars>>
    /\ UNCHANGED <<destVars, output_format, full_sync, complete_orders,
                   incomplete_orders, seen_ids, order_items, listing, uiPage,
                   page_number, order_rows, row_idx, total_scraped, success_count,
                   error_count, skipped_count, histVars, runOutcome, nextClicks,
                   openTabs, noData, retry, retry0, writeAttempts>>

(* li.ant-pagination-next carries aria-disabled="true" on the last page. *)
NextDisabled == uiPage = Len(listing)

NextFrame == UNCHANGED <<auxVars, upVars, jobVars, lockVars, loginVars, destVars, output_format, full_sync, complete_orders,
                         incomplete_orders, seen_ids, order_items, listing,
                         order_rows, row_idx, total_scraped, success_count,
                         error_count, skipped_count, histVars, runOutcome, openTabs,
                         noData, retry, retry0, writeAttempts>>

(* "Reached last page": break, before any click. *)
NextLastPageMut ==
    /\ NoFault
    /\ pc = "next"
    /\ NextDisabled
    /\ pc' = "finish"
    /\ loopExit' = "last_page"
    /\ nextClicks' = nextClicks + 1
    /\ UNCHANGED <<uiPage, page_number>>
    /\ NextFrame
NextLastPage ==
    /\ NoFault
    /\ pc = "next"
    /\ NextDisabled
    /\ pc' = "finish"
    /\ loopExit' = "last_page"
    /\ UNCHANGED <<uiPage, page_number, nextClicks>>
    /\ NextFrame

(* Reading the control raises (no click), the click on Next raises, or no
   table row shows up after the click: break. *)
NextFail(clicked) ==
    /\ Fault
    /\ pc = "next"
    /\ ~NextDisabled
    /\ pc' = "finish"
    /\ loopExit' = "next_fail"
    /\ nextClicks' = IF clicked THEN nextClicks + 1 ELSE nextClicks
    /\ UNCHANGED <<uiPage, page_number>>
    /\ NextFrame

(* Next clicked and the active page number becomes target_page. *)
NextAdvance ==
    /\ NoFault
    /\ pc = "next"
    /\ ~NextDisabled
    /\ pageReads < MaxPageReads
    /\ uiPage' = uiPage + 1
    /\ page_number' = uiPage + 1
    /\ nextClicks' = nextClicks + 1
    /\ pc' = "read"
    /\ UNCHANGED loopExit
    /\ NextFrame

(* Next clicked but the active page number does not change within the wait:
   the timeout is tolerated, the rows are still visible, the counter is set
   to target_page and the loop reads the rows again. *)
NextFrozen ==
    /\ Fault
    /\ pc = "next"
    /\ ~NextDisabled
    /\ pageReads < MaxPageReads
    /\ uiPage' = uiPage
    /\ page_number' = uiPage + 1
    /\ nextClicks' = nextClicks + 1
    /\ pc' = "read"
    /\ UNCHANGED loopExit
    /\ NextFrame

(* The end of the run: scrape_orders_month returns its result. *)
FinishFrame ==
    /\ runOutcome' = "returned"
    /\ UNCHANGED <<auxVars, upVars, jobVars, lockVars, loginVars, now, output_format, full_sync, complete_orders,
                   incomplete_orders, seen_ids, order_items, listing,
                   uiPage, page_number, order_rows, row_idx, total_scraped,
                   success_count, error_count, skipped_count, histVars, loopExit,
                   nextClicks, openTabs, noData, retry, retry0, writeAttempts>>

(* sort_tab_by_created_date: nothing to sort, or clear + rewrite sorted. *)
SortDone ==
    /\ NoFault
    /\ pc = "finish"
    /\ output_format = "sheets"
    /\ IF header = "ok" /\ sheet = <<>>
       THEN UNCHANGED <<sheet, header>>
       ELSE /\ sheet' = [i \in 1..Len(sheet) |-> Stored(SortedDesc(sheet)[i])]
            /\ header' = header
    /\ pc' = "idle"
    /\ UNCHANGED <<csv, checkpoint>>
    /\ FinishFrame

(* sort_tab_by_created_date: get_all_values raises; caught, tab untouched. *)
SortReadFail ==
    /\ Fault
    /\ pc = "finish"
    /\ output_format = "sheets"
    /\ pc' = "idle"
    /\ UNCHANGED <<sheet, header, csv, checkpoint>>
    /\ FinishFrame

(* sort_tab_by_created_date: ws.clear() done, then ws.format / ws.update
   raises (or the process stops); the except only prints a warning. *)
SortFailAfterClear ==
    /\ Fault
    /\ pc = "finish"
    /\ output_format = "sheets"
    /\ sheet # <<>>
    /\ sheet' = <<>>
    /\ header' = "none"
    /\ pc' = "idle"
    /\ UNCHANGED <<csv, checkpoint>>
    /\ FinishFrame

(* CSV mode: the checkpoint file is removed at the end of the run. *)
CsvCleanup ==
    /\ NoFault
    /\ pc = "finish"
    /\ output_format = "csv"
    /\ checkpoint' = [exists |-> FALSE, completed |-> {}, incomplete |-> {}]
    /\ pc' = "idle"
    /\ UNCHANGED <<sheet, header, csv>>
    /\ FinishFrame

(* The process is terminated in the middle of a run. *)
Kill ==
    /\ Fault
    /\ pc # "idle"
    /\ pc' = "idle"
    /\ openTabs' = 0
    /\ UNCHANGED <<auxVars, upVars, jobVars, lockVars, loginVars>>
    /\ UNCHANGED <<destVars, output_format, full_sync, complete_orders,
                   incomplete_orders, seen_ids, order_items, listing, uiPage,
                   page_number, order_rows, row_idx, total_scraped, success_count,
                   error_count, skipped_count, histVars, runOutcome, loopExit,
                   nextClicks, noData, retry, retry0, writeAttempts>>

SyncNext ==
    \/ \E fmt \in {"sheets", "csv"}, fs \in BOOLEAN, lst \in Listings :
          StartRun(fmt, fs, lst)
    \/ \E fmt \in {"sheets", "csv"}, fs \in BOOLEAN : LoginFailed(fmt, fs)
    \/ ReadPage
    \/ ReadPageFail
    \/ RowSkipComplete
    \/ RowSkipSeen
    \/ OpenDetail
    \/ RowNoApiData
    \/ RowFetchError
    \/ RowExtractError
    \/ RowWriteFail
    \/ RowSaved
    \/ PageEnd
    \/ NextLastPage
    \/ \E clicked \in BOOLEAN : NextFail(clicked)
    \/ NextAdvance
    \/ NextFrozen
    \/ SortDone
    \/ SortReadFail
    \/ SortFailAfterClear
    \/ CsvCleanup
    \/ Kill

-----------------------------------------------------------------------------
(* Properties of the sync run *)

(* The destination the current run writes. *)
Dest  == IF output_format = "sheets" THEN sheet ELSE csv
Dest0 == IF output_format = "sheets" THEN sheet0 ELSE csv0

(* Some data row of `records` carries order number o (with or without the
   legacy apostrophe) and a non-empty Last Synced. *)
HasSyncedRow(records, o) ==
    \E i \in 1..Len(records) :
        records[i].num \in {o, Quote(o)} /\ records[i].synced # 0

RowsWithNumber(records, o) ==
    SelectSeq(records, LAMBDA r : r.num \in {o, Quote(o)})

(* Every row read so far in this run has gone through the per-order loop. *)
RowsDone ==
    \/ pc \in {"read", "next", "finish"}
    \/ pc = "rows" /\ row_idx > Len(order_rows)

(* The complete set of the run: in sheets mode the orders whose row has a
   Last Synced value, in CSV mode the completed map of the checkpoint. *)
InCompleteSet(o) ==
    IF output_format = "sheets" THEN HasSyncedRow(sheet0, o) ELSE o \in complete0

(* C1: an order in the complete set is skipped in both modes (full_sync or
   not): no detail fetch is opened for it during the run, and from the start
   of the per-order loop to its end the rows of the destination carrying its
   order number keep their values. *)
C1_CompleteSkipped ==
    \A o \in Orders :
        (runs > 0 /\ InCompleteSet(o)) =>
            /\ fetchCount[o] = 0
            /\ ~should_rescrape_order(o, UpdatedDate(o), complete0)
            /\ pc # "idle" => RowsWithNumber(Dest, o) = RowsWithNumber(Dest0, o)

(* C1 witness: a full-sync run into the tab has finished its loop; it met an
   order of the complete set, skipped it, and saved another order. *)
C1_Witness ==
    /\ pc = "finish" /\ full_sync /\ output_format = "sheets"
    /\ \E o \in listed : HasSyncedRow(sheet0, o) /\ fetchCount[o] = 0
    /\ skipped_count >= 1 /\ success_count >= 1

(* C2: an order listed during the run and not in the complete set gets
   exactly one detail fetch: never more than one, however often it is listed
   (repeated or frozen page), and one as soon as the rows read so far have
   been processed, whether that fetch succeeded or failed. *)
C2_FetchedExactlyOnce ==
    \A o \in Orders :
        /\ fetchCount[o] <= 1
        /\ (RowsDone /\ o \in listed /\ o \notin complete0) => fetchCount[o] = 1

(* C2 witness: the run read three pages (an order was listed again), one
   order's only fetch failed and another order's only fetch was saved. *)
C2_Witness ==
    /\ pc = "finish" /\ pageReads = 3
    /\ \E o \in listed : fetchCount[o] = 1 /\ o \notin complete_orders
    /\ \E o \in listed : fetchCount[o] = 1 /\ written[o] # NoRow

UniqueNumbers(records) ==
    \A i, j \in 1..Len(records) :
        (i # j /\ records[i].num # "") => LStrip(records[i].num) # LStrip(records[j].num)

(* C4: after any sequence of runs, completed or aborted, no two data rows of
   the tab, and no two data rows of the CSV file, carry the same order number. *)
C4_UniqueOrderNumbers ==
    UniqueNumbers(sheet) /\ UniqueNumbers(csv)

(* C5: a row written in the current run is in the destination with the
   written values, wherever the run later fails or stops. *)
C5_WrittenRowsStay ==
    \A o \in Orders :
        written[o] # NoRow =>
            \E i \in 1..Len(Dest) : Dest[i] = written[o]

(* C8: with full_sync=True every listed order is fetched, also one whose row
   already has a Last Synced value. *)
C8_FullSyncFetchesAll ==
    (full_sync /\ RowsDone) =>
        \A o \in listed : fetchCount[o] >= 1

LastSyncedOf(records, o) ==
    Max({records[i].synced : i \in {j \in 1..Len(records) : records[j].num \in {o, Quote(o)}}})

(* C9: in incremental mode a listed order with a stored Last Synced is
   fetched again when the portal's Updated Date is later than it, and is
   skipped when it is not. *)
C9_IncrementalRefetchesUpdated ==
    (~full_sync /\ output_format = "sheets" /\ RowsDone) =>
        \A o \in listed :
            HasSyncedRow(sheet0, o) =>
                IF UpdatedDate(o) > LastSyncedOf(sheet0, o)
                THEN fetchCount[o] >= 1
                ELSE fetchCount[o] = 0

(* C13: when authentication fails (no valid session, no code obtained) the
   run ends without reading a page of the listing, without opening a detail
   fetch and without writing or changing a row of the tab or of the CSV file;
   POST /scrape answers 500 with success false, the error text and a message,
   and the job of POST /jobs gets status "error" with the error text. *)
C13_AuthFailureStructured ==
    runOutcome = OtpError =>
        /\ pc = "idle"
        /\ pageReads = 0 /\ listed = {} /\ nextClicks = 0
        /\ \A o \in Orders : fetchCount[o] = 0 /\ written[o] = NoRow
                              /\ writeAttempts[o] = 0
        /\ sheet = sheet0 /\ csv = csv0
        /\ ScrapeResponse(runOutcome) =
               [code |-> 500, success |-> FALSE, error |-> OtpError,
                message |-> "Scraping failed"]
        /\ JobOutcome(runOutcome) = [status |-> "error", error |-> OtpError]

(* C13 witness: a second call fails at login while the tab holds rows. *)
C13_Witness ==
    /\ runOutcome = OtpError /\ runs = 2
    /\ Len(sheet) >= 1

(* C15: when the page loop is at a page whose Next control reports disabled,
   it leaves as "last page reached" and in no other way: the rows of that
   page have all been processed, Next was clicked once for each page read
   after the first and not again, and at the end of the loop every row
   written in the run is in the destination. *)
C15_LastPageTerminates ==
    /\ loopExit = "last_page" =>
           /\ NextDisabled
           /\ pc \in {"finish", "idle"}
           /\ order_rows = listing[uiPage] /\ row_idx > Len(order_rows)
           /\ nextClicks = pageReads - 1
           /\ pc = "finish" =>
                  \A o \in Orders :
                      written[o] # NoRow => \E i \in 1..Len(Dest) : Dest[i] = written[o]
    /\ loopExit = "next_fail" => ~NextDisabled
    /\ (pc = "next" /\ NextDisabled) => row_idx > Len(order_rows)

(* C15 witness: the loop ended as last page reached on the second page read,
   with rows written on both pages. *)
C15_Witness ==
    /\ loopExit = "last_page" /\ pc = "finish"
    /\ pageReads = 2 /\ nextClicks = 1
    /\ Cardinality({o \in Orders : written[o] # NoRow}) >= 2

(* C16: the driver reads a next page only after the active page number of
   the UI was confirmed to be the previous number plus one: while rows are
   read or processed the active page number equals the driver's counter, and
   no page is read twice (the pages read never outnumber the pages reached). *)
C16_AdvanceConfirmed ==
    pc \in {"read", "rows", "detail"} =>
        /\ page_number = uiPage
        /\ pageReads <= uiPage

(* The skip ratio of the run so far is above 80%. *)
HighSkipRatio ==
    LET denom == IF total_scraped + skipped_count < 1 THEN 1
                 ELSE total_scraped + skipped_count
    IN  10 * skipped_count > 8 * denom

(* C17: in incremental mode, after a page other than the first has been
   processed with more than 80% of the orders seen skipped, pagination stops
   (the loop does not go on to the Next control); in full-sync mode the loop
   is never left by the early exit. *)
C17_EarlyExitIncremental ==
    /\ (pc = "next" /\ page_number > 1 /\ ~full_sync) => ~HighSkipRatio
    /\ loopExit = "early_exit" => ~full_sync

(* The counters are those of the result: between two rows of the per-order
   loop, after it, and when scrape_orders_month has returned. *)
CountersSettled ==
    pc \in {"read", "rows", "next", "finish"} \/ runOutcome = "returned"

(* C18 as stated: every per-order failure, an exception and a missing detail
   payload alike, is counted as failed, so every fetched order that was not
   saved is in the 'failed' counter, and the page loop is not aborted. *)
C18_AllFailuresCounted ==
    /\ CountersSettled => error_count = total_scraped - success_count
    /\ pc \in {"next", "finish"} /\ loopExit # "page_error" =>
           \A o \in listed : o \in complete_orders \/ o \in seen_ids

(* C18 amended: every per-order failure is caught and does not abort the page
   loop (the remaining rows of the page are still processed); an exception
   during extraction or writing increments the 'failed' counter, while a
   missing detail payload is recorded in the incomplete set instead and is
   not counted as failed. *)
C18_FailuresCaught ==
    /\ CountersSettled =>
           /\ total_scraped = success_count + error_count + Cardinality(noData)
           /\ noData \subseteq incomplete_orders \cup complete_orders
    /\ pc \in {"next", "finish"} /\ loopExit # "page_error" =>
           \A o \in listed : o \in complete_orders \/ o \in seen_ids

(* C18 witness: a run whose loop ended after one order raised, one order had
   no payload and a later order was saved. *)
C18_Witness ==
    /\ pc = "finish" /\ loopExit = "last_page"
    /\ error_count >= 1 /\ noData # {} /\ success_count >= 1

(* C19: when no detail payload arrives for an order, the detail tab is
   closed all the same, no row with its order number is written or changed,
   the order is in the incomplete set and not in the complete set, the loop
   goes on with the rows after it, and a later run into the same destination
   that lists the order fetches it again. *)
C19_NoPayloadSoftFailure ==
    /\ pc # "detail" => openTabs = 0
    /\ \A o \in noData :
           /\ written[o] = NoRow /\ writeAttempts[o] = 0
           /\ o \in incomplete_orders /\ o \notin complete_orders
           /\ pc # "idle" => RowsWithNumber(Dest, o) = RowsWithNumber(Dest0, o)
    /\ (noData # {} /\ pc \in {"next", "finish"} /\ loopExit # "page_error") =>
           \A o \in listed : o \in complete0 \/ fetchCount[o] = 1
    /\ \A o \in retry0 : (RowsDone /\ o \in listed) => fetchCount[o] = 1

(* C19 witness: an order left without payload by the first run is fetched
   again and saved by the second run, which lost another payload and went on. *)
C19_Witness ==
    /\ runs = 2 /\ pc = "finish"
    /\ \E o \in retry0 : written[o] # NoRow
    /\ noData # {}

(* append_to_sheet (scraper_api_ultra_fast.py): `for attempt in range(3)`. *)
WriteAttemptLimit == 3

(* C20: a write to the destination that fails with a spreadsheet API error is
   tried again up to the fixed number of attempts, and the row is given up
   only when the last attempt has failed: an order whose row was given up in
   this run has had that number of write attempts. *)
C20_WriteRetried ==
    \A o \in Orders :
        (pc # "detail" /\ writeAttempts[o] >= 1 /\ written[o] = NoRow) =>
            writeAttempts[o] = WriteAttemptLimit

(* The rows of s and of t are the same rows, each as often in one as in the
   other. *)
SameRows(s, t) ==
    /\ Len(s) = Len(t)
    /\ \A i \in 1..Len(s) :
           Len(SelectSeq(s, LAMBDA r : r = s[i])) = Len(SelectSeq(t, LAMBDA r : r = s[i]))

(* Newest first; a row with an empty or unparsable date (key 0) has no row
   with a parsable date after it. *)
NewestFirst(s) ==
    \A i, j \in 1..Len(s) : i < j => s[i].created >= s[j].created

(* The step in which sort_tab_by_created_date runs at the end of a sheets
   run, however it ends. *)
SortStep ==
    pc = "finish" /\ output_format = "sheets" /\ runOutcome' = "returned"

(* C21: after the end-of-run re-sort of a tab the header is still the first
   row, the data rows are the rows from before the sort (none lost, none
   duplicated, none altered), newest created date first and the rows with an
   empty or unparsable created date last. *)
C21_SortKeepsRows ==
    [][SortStep => (header' = header /\ SameRows(sheet', sheet) /\ NewestFirst(sheet'))]_vars

(* C22: the Address of a row written in the run comes from the payload of
   that row's own order (its display address, else the attribute under its own
   order items, else its customer address), never from the payload of an order
   processed earlier in the run. *)
C22_AddressFromOwnPayload ==
    \A o \in Orders :
        written[o] # NoRow => written[o].addr = o

UniqueKeys(records) ==
    \A i, j \in 1..Len(records) :
        (records[i].num # "" /\ records[j].num # "" /\ RowKey(records[i]) = RowKey(records[j]))
            => i = j

(* C29: throughout a run that starts from a destination with unique order
   numbers, no order number is in the complete set and in the incomplete set
   at once; within the run the complete set only grows; an order whose row is
   written is in complete and not in incomplete after that same step; and an
   order that is in complete is not fetched. *)
C29_CompleteIncompleteDisjoint ==
    /\ [](UniqueKeys(sheet0) => complete_orders \cap incomplete_orders = {})
    /\ [][ (runs' = runs /\ UniqueKeys(sheet0)) =>
              /\ complete_orders \subseteq complete_orders'
              /\ \A o \in Orders :
                    /\ written'[o] # written[o] =>
                          (o \in complete_orders' /\ o \notin incomplete_orders')
                    /\ fetchCount'[o] > fetchCount[o] => o \notin complete_orders
       ]_vars

(* C29 witness: the run started with one order complete and another
   incomplete; the incomplete one was fetched and written, which moved it to
   complete, while the complete one was listed and not fetched. *)
C29_Witness ==
    /\ \E o \in IncompleteOf(sheet0) :
          /\ written[o] # NoRow
          /\ o \in complete_orders /\ o \notin incomplete_orders
    /\ \E o \in complete0 : o \in listed /\ fetchCount[o] = 0

-----------------------------------------------------------------------------
(* upsert_rows applied to a tab: gsheets_writer.py *)

MaxTabLen == 2    \* data rows of the tab before the first upsert

(* Rows a tab may hold, and rows a caller may pass (scrape_orders_month
   passes the order number with the apostrophe prefix). *)
TabRows == { Row(n, c, a, sy) : n \in Orders \cup {Quote(O1)}, c \in {1},
                                a \in {O1}, sy \in {0, 1} }
NewRows == { Row(n, c, a, sy) : n \in {Quote(o) : o \in Orders} \cup {O2},
                                c \in {1, 2}, a \in {O2}, sy \in {2, 3} }

RECURSIVE SeqsUpTo(_, _)
SeqsUpTo(S, n) ==
    IF n = 0 THEN { <<>> }
    ELSE LET shorter == SeqsUpTo(S, n - 1)
         IN  shorter \cup { Append(q, x) : q \in shorter, x \in S }

(* Order numbers are unique within a tab. *)
UpsertInit ==
    /\ tab \in { t \in SeqsUpTo(TabRows, MaxTabLen) : UniqueNumbers(t) }
    /\ tab0 = tab
    /\ tabMid = <<>>
    /\ upApplied = <<>>

(* upsert_rows(ws, [r]), first call. *)
UpsertFirst(r) ==
    /\ upApplied = <<>>
    /\ tab' = upsert_rows(tab, <<r>>)
    /\ tabMid' = tab'
    /\ upApplied' = <<r>>
    /\ UNCHANGED tab0
    /\ UNCHANGED <<auxVars, syncVars, jobVars, lockVars, loginVars>>

(* upsert_rows(ws, [r]) again, for the same order number. *)
UpsertSecond(r) ==
    /\ Len(upApplied) = 1
    /\ LStrip(r.num) = LStrip(upApplied[1].num)
    /\ tab' = upsert_rows(tab, <<r>>)
    /\ upApplied' = Append(upApplied, r)
    /\ UNCHANGED <<tab0, tabMid>>
    /\ UNCHANGED <<auxVars, syncVars, jobVars, lockVars, loginVars>>

UpsertNext ==
    \/ \E r \in NewRows : UpsertFirst(r)
    \/ \E r \in NewRows : UpsertSecond(r)

UpsertIdle ==
    /\ tab = <<>> /\ tab0 = <<>> /\ tabMid = <<>> /\ upApplied = <<>>

(* The order whose number a cell text shows. *)
NumberOf(text) == CHOOSE o \in Orders : text \in {o, Quote(o)}
HasNumber(r, o) == r.num \in {o, Quote(o)}

(* What the tab must hold for order o after row r was upserted: r's values,
   the order number as plain text. *)
AsStored(r) == [r EXCEPT !.num = NumberOf(r.num)]

UpsertedRight(before, after, r) ==
    LET o == NumberOf(r.num)
        at == {i \in 1..Len(before) : HasNumber(before[i], o)}
    IN  /\ Cardinality({i \in 1..Len(after) : HasNumber(after[i], o)}) = 1
        /\ \A i \in 1..Len(before) : i \notin at => (i <= Len(after) /\ after[i] = before[i])
        /\ IF at # {}
           THEN /\ Len(after) = Len(before)
                /\ \A i \in at : after[i] = AsStored(r)
           ELSE /\ Len(after) = Len(before) + 1
                /\ after[Len(after)] = AsStored(r)

(* C3: upsert is idempotent.  After upsert_rows was applied twice in
   succession for one order number, the tab has exactly one data row with
   that number and it holds the values of the second write; the rows of the
   other orders are unchanged; a number already in the tab was overwritten in
   place and a number not in it was appended once; and when the two rows are
   the same row, the second call changed nothing. *)
C3_UpsertIdempotent ==
    /\ Len(upApplied) >= 1 => /\ UpsertedRight(tab0, tabMid, upApplied[1])
                              /\ Len(upApplied) = 1 => tab = tabMid
    /\ Len(upApplied) = 2 =>
          /\ UpsertedRight(tab0, tab, upApplied[2])
          /\ Len(tab) = Len(tabMid)
          /\ upApplied[2] = upApplied[1] => tab = tabMid

(* C3 witnesses: the same row written twice to a tab that already held the
   number under the legacy apostrophe form, next to another order's row. *)
C3_Witness ==
    /\ Len(upApplied) = 2 /\ upApplied[1] = upApplied[2]
    /\ Len(tab0) = 2
    /\ \E i \in 1..2 : tab0[i].num = Quote(O1) /\ HasNumber(upApplied[1], O1)

-----------------------------------------------------------------------------
(* POST /jobs and the background runner: api_server.py *)

NumRequests == 3    \* request threads
Requests == 1..NumRequests

JobsInit ==
    /\ JOBS = <<>>
    /\ reqPc = [r \in Requests |-> "new"]

JobsIdle == JobsInit

(* The test of the GLOBAL LOCK CHECK loop: some job is queued or running. *)
AnyActive(jobs) ==
    \E j \in DOMAIN jobs : jobs[j].status \in {"queued", "running"}

(* GET /jobs/<job_id>: 404 unknown_job, or 200 with the record's fields. *)
job_status(jobs, job_id) ==
    IF job_id \in DOMAIN jobs
    THEN [code |-> 200, status |-> jobs[job_id].status, error |-> jobs[job_id].error]
    ELSE [code |-> 404, status |-> "unknown_job", error |-> ""]

(* create_job, first `with JOBS_LOCK:` block: 409 when a job is active,
   otherwise the block ends and the lock is released. *)
CreateJobCheck(r) ==
    /\ reqPc[r] = "new"
    /\ reqPc' = [reqPc EXCEPT ![r] = IF AnyActive(JOBS) THEN "409" ELSE "checked"]
    /\ UNCHANGED JOBS
    /\ UNCHANGED <<auxVars, syncVars, upVars, lockVars, loginVars>>

(* create_job, second `with JOBS_LOCK:` block: the record is inserted as
   queued, the worker thread is started and 202 is returned. *)
CreateJobInsert(r) ==
    /\ reqPc[r] = "checked"
    /\ JOBS' = Append(JOBS, [status |-> "queued", by |-> r, error |-> ""])
    /\ reqPc' = [reqPc EXCEPT ![r] = "202"]
    /\ UNCHANGED <<auxVars, syncVars, upVars, lockVars, loginVars>>

(* _run_job: status = "running". *)
RunJobStart(j) ==
    /\ j \in DOMAIN JOBS
    /\ JOBS[j].status = "queued"
    /\ JOBS' = [JOBS EXCEPT ![j].status = "running"]
    /\ UNCHANGED reqPc
    /\ UNCHANGED <<auxVars, syncVars, upVars, lockVars, loginVars>>

(* _run_job: scrape_month returned: status = "done". *)
RunJobDone(j) ==
    /\ j \in DOMAIN JOBS
    /\ JOBS[j].status = "running"
    /\ JOBS' = [JOBS EXCEPT ![j].status = JobOutcome("").status,
                            ![j].error = JobOutcome("").error]
    /\ UNCHANGED reqPc
    /\ UNCHANGED <<auxVars, syncVars, upVars, lockVars, loginVars>>

(* _run_job: an exception: status = "error", error = str(e). *)
RunJobErrorMut(j, e) ==
    /\ j \in DOMAIN JOBS
    /\ JOBS[j].status = "running"
    /\ JOBS' = [JOBS EXCEPT ![j].status = "queued", ![j].error = e]
    /\ UNCHANGED reqPc
    /\ UNCHANGED <<auxVars, syncVars, upVars, lockVars, loginVars>>
RunJobError(j, e) ==
    /\ j \in DOMAIN JOBS
    /\ JOBS[j].status = "running"
    /\ JOBS' = [JOBS EXCEPT ![j].status = JobOutcome(e).status,
                            ![j].error = JobOutcome(e).error]
    /\ UNCHANGED reqPc
    /\ UNCHANGED <<auxVars, syncVars, upVars, lockVars, loginVars>>

JobsNext ==
    \/ \E r \in Requests : CreateJobCheck(r)
    \/ \E r \in Requests : CreateJobInsert(r)
    \/ \E j \in 1..NumRequests : RunJobStart(j)
    \/ \E j \in 1..NumRequests : RunJobDone(j)
    \/ \E j \in 1..NumRequests, e \in JobErrors : RunJobError(j, e)

ActiveJobs == {j \in DOMAIN JOBS : JOBS[j].status \in {"queued", "running"}}

(* C6: under any interleaving of POST /jobs requests at most one job record
   is queued or running. *)
C6_AtMostOneActiveJob ==
    Cardinality(ActiveJobs) <= 1

(* One step of a job record's status: unchanged, queued to running, or
   running to done or error. *)
StatusForward(from, to) ==
    \/ to = from
    \/ from = "queued" /\ to = "running"
    \/ from = "running" /\ to \in {"done", "error"}

(* C14: in every step every job record stays in the registry and its status
   stays or moves forward along queued, running, then done or error (so done
   and error never change and no job returns to queued or running); GET
   /jobs/{id} answers 200 for every id issued so far and 404 for the others. *)
C14_JobStatusForward ==
    [][ /\ \A j \in DOMAIN JOBS :
              /\ j \in DOMAIN JOBS'
              /\ StatusForward(JOBS[j].status, JOBS'[j].status)
        /\ \A id \in 1..(NumRequests + 1) :
              job_status(JOBS', id).code = IF id <= Len(JOBS') THEN 200 ELSE 404
      ]_vars

(* C14 witness: three jobs were issued; one is done, one ended in error with
   the login's error text, and both still answer. *)
C14_Witness ==
    /\ Len(JOBS) = 3
    /\ \E i, j \in DOMAIN JOBS :
          /\ JOBS[i].status = "done" /\ job_status(JOBS, i).code = 200
          /\ JOBS[j].status = "error" /\ job_status(JOBS, j).error = OtpError

(* The worker thread of a job is scheduled, and its call of scrape_month
   returns or raises. *)
JobsFairness ==
    \A j \in 1..NumRequests :
        /\ WF_vars(RunJobStart(j))
        /\ WF_vars(RunJobDone(j) \/ \E e \in JobErrors : RunJobError(j, e))

(* C27: every job accepted by POST /jobs eventually leaves the active states
   (queued, running) and is done or in error, given that its worker thread
   runs and the sync call returns or raises; no job stays active for ever. *)
C27_JobsFinish ==
    \A j \in 1..NumRequests :
        (j \in DOMAIN JOBS /\ JOBS[j].status \in {"queued", "running"})
            ~> (j \in DOMAIN JOBS /\ JOBS[j].status \in {"done", "error"})

(* C27 witness: every request has been answered, two jobs were accepted and
   both have left the active states, one done and one in error. *)
C27_Witness ==
    /\ \A r \in Requests : reqPc[r] \in {"202", "409"}
    /\ Len(JOBS) >= 2
    /\ ActiveJobs = {}
    /\ \E i, j \in DOMAIN JOBS : JOBS[i].status = "done" /\ JOBS[j].status = "error"

-----------------------------------------------------------------------------
(* POST /scrape_full: api_server.py *)

(* The month and year a request names: a month by its short or its full
   name. *)
MonthYears == { <<"Oct", "2025">>, <<"October", "2025">>, <<"Nov", "2025">> }

(* lock_key = f"{month}_{year}" *)
lock_key(month, year) == month \o "_" \o year

(* month_tab_title: the month name is mapped to its short form (a name the
   map does not hold is kept), then "<short> <year>". *)
month_tab_title(month_text, year) ==
    LET short_month == IF month_text \in {"October", "Oct"} THEN "Oct"
                       ELSE IF month_text \in {"November", "Nov"} THEN "Nov"
                       ELSE month_text
    IN  short_month \o " " \o year

(* The keys of the requests. *)
LockKeys == { lock_key(my[1], my[2]) : my \in MonthYears }

(* The tab a request with this key writes: scrape_orders_month calls
   month_tab_title(month_text, year). *)
TabOf(k) ==
    LET my == CHOOSE m \in MonthYears : lock_key(m[1], m[2]) = k
    IN  month_tab_title(my[1], my[2])

LockInit ==
    /\ scrape_locks = [k \in LockKeys |-> FALSE]
    /\ fullPc = [r \in Requests |-> "new"]
    /\ fullKey = [r \in Requests |-> "Oct_2025"]
    /\ ranSync = [r \in Requests |-> FALSE]
    /\ busyAtAcquire = [r \in Requests |-> FALSE]

LockIdle == LockInit

(* Lock.acquire(blocking=False): True exactly when the lock was free. *)
AcquireNonBlockingMut(held) == TRUE
AcquireNonBlocking(held) == ~held

(* month or year missing: 400 before any lock is touched. *)
FullBadRequest(r) ==
    /\ fullPc[r] = "new"
    /\ fullPc' = [fullPc EXCEPT ![r] = "400"]
    /\ UNCHANGED <<scrape_locks, fullKey, ranSync, busyAtAcquire>>
    /\ UNCHANGED <<auxVars, syncVars, upVars, jobVars, loginVars>>

(* acquired = scrape_locks[lock_key].acquire(blocking=False); 429 when not. *)
FullAcquire(r, k) ==
    /\ fullPc[r] = "new"
    /\ fullKey' = [fullKey EXCEPT ![r] = k]
    /\ busyAtAcquire' = [busyAtAcquire EXCEPT ![r] = scrape_locks[k]]
    /\ IF AcquireNonBlocking(scrape_locks[k])
       THEN /\ scrape_locks' = [scrape_locks EXCEPT ![k] = TRUE]
            /\ fullPc' = [fullPc EXCEPT ![r] = "sync"]
            /\ ranSync' = [ranSync EXCEPT ![r] = TRUE]
       ELSE /\ fullPc' = [fullPc EXCEPT ![r] = "429"]
            /\ UNCHANGED <<scrape_locks, ranSync>>
    /\ UNCHANGED <<auxVars, syncVars, upVars, jobVars, loginVars>>

(* scrape_month returned (200) or raised (500); the finally block follows. *)
FullSyncEnds(r, code) ==
    /\ fullPc[r] = "sync"
    /\ fullPc' = [fullPc EXCEPT ![r] = code]
    /\ UNCHANGED <<scrape_locks, fullKey, ranSync, busyAtAcquire>>
    /\ UNCHANGED <<auxVars, syncVars, upVars, jobVars, loginVars>>

(* finally: scrape_locks[lock_key].release() *)
FullReleaseMut(r) ==
    /\ fullPc[r] \in {"finally200", "finally500"}
    /\ scrape_locks' = IF fullPc[r] = "finally200"
                       THEN [scrape_locks EXCEPT ![fullKey[r]] = FALSE]
                       ELSE scrape_locks
    /\ fullPc' = [fullPc EXCEPT ![r] = IF fullPc[r] = "finally200" THEN "200" ELSE "500"]
    /\ UNCHANGED <<fullKey, ranSync, busyAtAcquire>>
    /\ UNCHANGED <<auxVars, syncVars, upVars, jobVars, loginVars>>
FullRelease(r) ==
    /\ fullPc[r] \in {"finally200", "finally500"}
    /\ scrape_locks' = [scrape_locks EXCEPT ![fullKey[r]] = FALSE]
    /\ fullPc' = [fullPc EXCEPT ![r] = IF fullPc[r] = "finally200" THEN "200" ELSE "500"]
    /\ UNCHANGED <<fullKey, ranSync, busyAtAcquire>>
    /\ UNCHANGED <<auxVars, syncVars, upVars, jobVars, loginVars>>

(* POST /scrape and POST /scrape_incremental call scrape_orders_month with
   the request's month and year and take no lock. *)
ScrapeNoLock(r, k) ==
    /\ fullPc[r] = "new"
    /\ fullKey' = [fullKey EXCEPT ![r] = k]
    /\ fullPc' = [fullPc EXCEPT ![r] = "scrape"]
    /\ ranSync' = [ranSync EXCEPT ![r] = TRUE]
    /\ UNCHANGED <<scrape_locks, busyAtAcquire>>
    /\ UNCHANGED <<auxVars, syncVars, upVars, jobVars, loginVars>>

(* Their sync returned or raised: the response is sent. *)
ScrapeNoLockEnds(r) ==
    /\ fullPc[r] = "scrape"
    /\ fullPc' = [fullPc EXCEPT ![r] = "scraped"]
    /\ UNCHANGED <<scrape_locks, fullKey, ranSync, busyAtAcquire>>
    /\ UNCHANGED <<auxVars, syncVars, upVars, jobVars, loginVars>>

LockNext ==
    \/ \E r \in Requests : FullBadRequest(r)
    \/ \E r \in Requests, k \in LockKeys : ScrapeNoLock(r, k)
    \/ \E r \in Requests : ScrapeNoLockEnds(r)
    \/ \E r \in Requests, k \in LockKeys : FullAcquire(r, k)
    \/ \E r \in Requests, code \in {"finally200", "finally500"} : FullSyncEnds(r, code)
    \/ \E r \in Requests : FullRelease(r)

Syncing(k) == {r \in Requests : fullPc[r] = "sync" /\ fullKey[r] = k}

(* C7: for every month/year key at most one /scrape_full request is running
   the sync; a request that found the key busy was rejected in the step in
   which it tried the lock (it never waits) and has run no sync. *)
C7_PerKeyExclusion ==
    /\ \A k \in LockKeys : Cardinality(Syncing(k)) <= 1
    /\ \A r \in Requests :
          busyAtAcquire[r] => (fullPc[r] = "429" /\ ~ranSync[r])
    /\ \A r \in Requests :
          fullPc[r] = "429" => (busyAtAcquire[r] /\ ~ranSync[r])

(* C7 witness: one request runs the sync for a key, a second request for the
   same key was rejected meanwhile, a third runs the sync for another key. *)
C7_Witness ==
    \E a, b, c \in Requests :
        /\ fullPc[a] = "sync" /\ fullPc[b] = "429" /\ fullKey[a] = fullKey[b]
        /\ fullPc[c] = "sync" /\ fullKey[c] # fullKey[a]

(* The /scrape_full requests that acquired the lock of key k and have not
   yet gone through the finally block. *)
Holders(k) ==
    {r \in Requests : fullPc[r] \in {"sync", "finally200", "finally500"} /\ fullKey[r] = k}

(* C26: the lock of a key is held exactly while the one request that
   acquired it is between its acquire and its finally block: it is released
   on both exits of the sync (returned, raised), a request answered 400 or
   429 never releases it, and once the holder has finished the key is free,
   so that a new request for it is accepted. *)
C26_ReleasedByHolder ==
    \A k \in LockKeys :
        /\ Cardinality(Holders(k)) <= 1
        /\ scrape_locks[k] <=> Holders(k) # {}
        /\ Holders(k) = {} => AcquireNonBlocking(scrape_locks[k])

(* C26 witness: a request whose sync raised has released the key, a request
   rejected as busy and one rejected as incomplete have ended, and a later
   request for the same key holds the lock. *)
C26_Witness ==
    \E a, b, c \in Requests :
        /\ fullPc[a] = "500" /\ fullPc[b] = "429" /\ fullKey[b] = fullKey[a]
        /\ fullPc[c] = "sync" /\ fullKey[c] = fullKey[a] /\ ~busyAtAcquire[c]

(* The requests whose sync is writing tab t. *)
Writers(t) ==
    {r \in Requests : fullPc[r] \in {"sync", "scrape"} /\ TabOf(fullKey[r]) = t}

(* C25: no two sync runs write the same tab at the same time, whichever
   endpoint started them and however the month is spelled: requests naming a
   month by its short and by its full name resolve to the same tab and
   exclude each other. *)
C25_OneWriterPerTab ==
    \A k \in LockKeys : Cardinality(Writers(TabOf(k))) <= 1

-----------------------------------------------------------------------------
(* login_and_get_context: login_manager.py *)

MaxTicks == 3          \* clock advances per behaviour
FreshWindow == 86400   \* seconds a cached session stays usable

Absent == [state |-> "absent", cookies |-> FALSE, last_login |-> 0]

LoginInit ==
    /\ session \in { Absent,
                     [state |-> "corrupt", cookies |-> FALSE, last_login |-> 0],
                     [state |-> "ok", cookies |-> TRUE, last_login |-> 0],
                     [state |-> "ok", cookies |-> FALSE, last_login |-> 0] }
    /\ clock = 0
    /\ ticks = 0
    /\ lpc = "idle"
    /\ loadClock = 0
    /\ probe = "none"
    /\ otpA = FALSE /\ otpB = FALSE
    /\ ctxCookies = FALSE
    /\ authAt = 0

LoginIdle ==
    /\ session = Absent /\ clock = 0 /\ ticks = 0
    /\ lpc = "idle" /\ loadClock = 0 /\ probe = "none"
    /\ otpA = FALSE /\ otpB = FALSE /\ ctxCookies = FALSE /\ authAt = 0

(* load_session's expiry test: `if age_seconds > 86400: return None`. *)
SessionFreshMut(age_seconds) == TRUE
SessionFresh(age_seconds) == ~(age_seconds > FreshWindow)

(* load_session: the cached data, or None (FALSE) when the file is missing
   or unreadable, too old, or holds no cookies. *)
load_session(s, t) ==
    /\ s.state = "ok"
    /\ SessionFresh(t - s.last_login)
    /\ s.cookies

(* save_session: the file is opened with "w" and receives the cookies of the
   context and time.time(). *)
save_sessionMut(old, cookies, t) ==
    IF old.state = "ok" THEN old
    ELSE [state |-> "ok", cookies |-> cookies, last_login |-> t]
save_session(old, cookies, t) ==
    [state |-> "ok", cookies |-> cookies, last_login |-> t]

(* The test of the cached session reuses it only on this outcome. *)
ProbePasses(outcome) == outcome = "pass"

ProbeOutcomes == {"redirect", "form", "nocontrol", "exception", "pass"}

(* `otp = await get_latest_otp()`: the name is imported from
   telegram_otp_reader; the Gmail reader is not consulted. *)
get_latest_otp(telegram, gmail) == IF telegram THEN "telegram" ELSE "none"

(* Browser launched, load_session called (it adds the cached cookies to the
   context when it returns the data). *)
LoginLoad ==
    /\ lpc = "idle"
    /\ loadClock' = clock
    /\ probe' = "none"
    /\ lpc' = IF load_session(session, clock) THEN "probe" ELSE "fresh"
    /\ ctxCookies' = load_session(session, clock)
    /\ UNCHANGED <<session, clock, ticks, otpA, otpB, authAt>>
    /\ UNCHANGED <<auxVars, syncVars, upVars, jobVars, lockVars>>

(* "Testing cached session...": redirected to login, login form present,
   History tab or month picker missing, an exception, or all tests pass
   (the context is returned, save_session is not called). *)
TestCachedSession(outcome) ==
    /\ lpc = "probe"
    /\ probe' = outcome
    /\ lpc' = IF ProbePasses(outcome) THEN "reused" ELSE "fresh"
    /\ authAt' = IF ProbePasses(outcome) THEN clock ELSE authAt
    /\ UNCHANGED <<session, clock, ticks, loadClock, otpA, otpB, ctxCookies>>
    /\ UNCHANGED <<auxVars, syncVars, upVars, jobVars, lockVars>>

(* Fresh login: credentials filled, boxes checked, GET clicked; the portal
   sends the code and each inbox receives it in time or not. *)
RequestOtp(a, b) ==
    /\ lpc = "fresh"
    /\ otpA' = a
    /\ otpB' = b
    /\ lpc' = "otp"
    /\ UNCHANGED <<session, clock, ticks, loadClock, probe, ctxCookies, authAt>>
    /\ UNCHANGED <<auxVars, syncVars, upVars, jobVars, lockVars>>

(* A code was obtained: Sign In, History page, then save_session writes the
   context's cookies and time.time(); the context is returned. *)
FreshLoginOk(cookies) ==
    /\ lpc = "otp"
    /\ get_latest_otp(otpA, otpB) # "none"
    /\ session' = save_session(session, cookies, clock)
    /\ ctxCookies' = cookies
    /\ authAt' = clock
    /\ lpc' = "fresh_ok"
    /\ UNCHANGED <<clock, ticks, loadClock, probe, otpA, otpB>>
    /\ UNCHANGED <<auxVars, syncVars, upVars, jobVars, lockVars>>

(* get_latest_otp returned None: browser.close() and
   RuntimeError("Failed to retrieve OTP from Telegram"). *)
FreshLoginNoOtp ==
    /\ lpc = "otp"
    /\ get_latest_otp(otpA, otpB) = "none"
    /\ lpc' = "no_otp"
    /\ UNCHANGED <<session, clock, ticks, loadClock, probe, otpA, otpB, ctxCookies, authAt>>
    /\ UNCHANGED <<auxVars, syncVars, upVars, jobVars, lockVars>>

(* A page step of the fresh login raises (before or after the code was
   typed): the exception leaves login_and_get_context, nothing is saved. *)
FreshLoginFailMut ==
    /\ \/ lpc = "fresh"
       \/ lpc = "otp" /\ get_latest_otp(otpA, otpB) # "none"
    /\ lpc' = "failed"
    /\ session' = Absent
    /\ UNCHANGED <<clock, ticks, loadClock, probe, otpA, otpB, ctxCookies, authAt>>
    /\ UNCHANGED <<auxVars, syncVars, upVars, jobVars, lockVars>>
FreshLoginFail ==
    /\ \/ lpc = "fresh"
       \/ lpc = "otp" /\ get_latest_otp(otpA, otpB) # "none"
    /\ lpc' = "failed"
    /\ UNCHANGED <<session, clock, ticks, loadClock, probe, otpA, otpB, ctxCookies, authAt>>
    /\ UNCHANGED <<auxVars, syncVars, upVars, jobVars, lockVars>>

(* The run that asked for the context is over; a later run logs in again. *)
LoginOver ==
    /\ lpc \in {"reused", "fresh_ok", "no_otp", "failed"}
    /\ lpc' = "idle"
    /\ UNCHANGED <<session, clock, ticks, loadClock, probe, otpA, otpB, ctxCookies, authAt>>
    /\ UNCHANGED <<auxVars, syncVars, upVars, jobVars, lockVars>>

(* Time passes. *)
Tick(d) ==
    /\ ticks < MaxTicks
    /\ ticks' = ticks + 1
    /\ clock' = clock + d
    /\ UNCHANGED <<session, lpc, loadClock, probe, otpA, otpB, ctxCookies, authAt>>
    /\ UNCHANGED <<auxVars, syncVars, upVars, jobVars, lockVars>>

LoginNext ==
    \/ LoginLoad
    \/ \E outcome \in ProbeOutcomes : TestCachedSession(outcome)
    \/ \E a, b \in BOOLEAN : RequestOtp(a, b)
    \/ \E cookies \in BOOLEAN : FreshLoginOk(cookies)
    \/ FreshLoginNoOtp
    \/ FreshLoginFail
    \/ LoginOver
    \/ \E d \in {1, 86400} : Tick(d)

(* The cached artifact as login_and_get_context found it: readable, with
   cookies, and at most 24 hours old when it was loaded. *)
ArtifactUsable ==
    /\ session.state = "ok"
    /\ session.cookies
    /\ loadClock - session.last_login <= 24 * 3600

(* C10: the context is returned without a fresh login only if the cached
   artifact is at most 24 hours old, has cookies, and the probe of the
   protected page passed; the probe is run only on such an artifact; and in
   every other case (artifact unusable, or any failing probe outcome) the
   login goes on to the fresh login. *)
C10_ReuseOnlyIfValid ==
    /\ lpc = "reused" => (ArtifactUsable /\ probe = "pass")
    /\ lpc = "probe"  => (ArtifactUsable /\ probe = "none")
    /\ lpc = "fresh"  => IF ArtifactUsable
                         THEN probe \in {"redirect", "form", "nocontrol", "exception"}
                         ELSE probe = "none"

(* C10 witness: a session exactly 24 hours old was probed and reused. *)
C10_Witness ==
    /\ lpc = "reused"
    /\ loadClock - session.last_login = 24 * 3600

(* C11: whenever a fresh login succeeds (login_and_get_context returns the
   context after Sign In), the session file holds exactly the cookies of that
   context and the time of that login, whatever it held before: no file, an
   unreadable file, or an older artifact. *)
C11_LoginPersistsSession ==
    lpc = "fresh_ok" =>
        session = [state |-> "ok", cookies |-> ctxCookies, last_login |-> authAt]

(* C11 witness: a readable artifact with cookies failed the probe, a fresh
   login followed at a later time and its artifact replaced the older one. *)
C11_Witness ==
    /\ lpc = "fresh_ok"
    /\ probe \in {"redirect", "form", "nocontrol", "exception"}
    /\ authAt > 0 /\ session.last_login = authAt

(* C28: only a successful fresh login changes the session artifact (a reuse
   of the cached session, a failed probe and a failed login leave its cookies
   and its last-login time as they were), and it stamps it with the time of
   that login; so a session that is reused was, when its age was tested, at
   most 24 hours older than the most recent successful fresh login, however
   often it was reused before. *)
C28_OnlyFreshLoginWrites ==
    [][ /\ session' # session =>
              (lpc = "otp" /\ lpc' = "fresh_ok" /\ session'.last_login = clock)
        /\ lpc' = "reused" =>
              (session' = session /\ loadClock' - session'.last_login <= FreshWindow)
      ]_vars

(* C28 witness: a session saved by a fresh login of this behaviour is reused
   by a later login, a day after it was saved. *)
C28_Witness ==
    /\ lpc = "reused"
    /\ session.last_login > 0
    /\ loadClock - session.last_login >= 86400

(* C12: a fresh login ends with "no OTP" only when neither the Telegram
   group nor the Gmail inbox yields a code within its bound; when Telegram
   yields nothing and Gmail has the code, the login goes on with it. *)
C12_OtpFallback ==
    lpc = "no_otp" => (~otpA /\ ~otpB)

-----------------------------------------------------------------------------
(* Date normalization: format_datetime (scrape_orders.py) and standardize_date
   (date_utils.py).  A text is a record; its numeric parts are digit
   sequences, so that widths and padding are part of the value. *)

RECURSIVE Pow10(_)
Pow10(k) == IF k = 0 THEN 1 ELSE 10 * Pow10(k - 1)

(* n written with exactly w digits (zero-padded). *)
Digits(n, w) == [i \in 1..w |-> (n \div Pow10(w - i)) % 10]

(* The number of digits of n written without padding. *)
Width(n) == IF n < 10 THEN 1 ELSE IF n < 100 THEN 2 ELSE IF n < 1000 THEN 3 ELSE 4

RECURSIVE Value(_)
(* int() of a digit sequence. *)
Value(ds) == IF ds = <<>> THEN 0
             ELSE 10 * Value(SubSeq(ds, 1, Len(ds) - 1)) + ds[Len(ds)]

(* %b in the C locale. *)
MonthAbbr == <<"Jan", "Feb", "Mar", "Apr", "May", "Jun",
               "Jul", "Aug", "Sep", "Oct", "Nov", "Dec">>

IsLeap(y) == (y % 4 = 0 /\ y % 100 # 0) \/ y % 400 = 0
DaysIn(y, m) == IF m = 2 THEN (IF IsLeap(y) THEN 29 ELSE 28)
                ELSE IF m \in {4, 6, 9, 11} THEN 30 ELSE 31

(* datetime(...) accepts the fields. *)
ValidDate(y, m, d, h, mi, sec) ==
    /\ y \in 1..9999 /\ m \in 1..12 /\ d \in 1..DaysIn(y, m)
    /\ h \in 0..23 /\ mi \in 0..59 /\ sec \in 0..59

NoDate == [ok |-> FALSE, year |-> 0, month |-> 0, day |-> 0,
           hour |-> 0, minute |-> 0, second |-> 0]
DateOf(y, m, d, h, mi, sec) ==
    IF ValidDate(y, m, d, h, mi, sec)
    THEN [ok |-> TRUE, year |-> y, month |-> m, day |-> d,
          hour |-> h, minute |-> mi, second |-> sec]
    ELSE NoDate

(* Texts: the 14 digits of the API, the "DD Mon YYYY HH:MM" form, and "". *)
ApiText(ds) == [shape |-> "api", digits |-> ds, day |-> <<>>, mon |-> "",
                year |-> <<>>, hour |-> <<>>, minute |-> <<>>]
EmptyText == [shape |-> "empty", digits |-> <<>>, day |-> <<>>, mon |-> "",
              year |-> <<>>, hour |-> <<>>, minute |-> <<>>]

(* datetime.strptime(s, "%Y%m%d%H%M%S") on a text of 14 digits. *)
strptime_api(t) ==
    IF t.shape = "api" /\ Len(t.digits) = 14
    THEN DateOf(Value(SubSeq(t.digits, 1, 4)), Value(SubSeq(t.digits, 5, 6)),
                Value(SubSeq(t.digits, 7, 8)), Value(SubSeq(t.digits, 9, 10)),
                Value(SubSeq(t.digits, 11, 12)), Value(SubSeq(t.digits, 13, 14)))
    ELSE NoDate

(* dt.strftime("%d %b %Y %H:%M"): %d, %H and %M are two digits; %Y is the
   year as the C library prints it, padded to four digits or not. *)
strftime_outMut(dt, padded) ==
    [shape |-> "ui", digits |-> <<>>,
     day |-> Digits(dt.day, 2), mon |-> MonthAbbr[dt.month],
     year |-> IF padded THEN Digits(dt.year, 4) ELSE Digits(dt.year, Width(dt.year)),
     hour |-> Digits(dt.hour % 12, 2), minute |-> Digits(dt.minute, 2)]
strftime_out(dt, padded) ==
    [shape |-> "ui", digits |-> <<>>,
     day |-> Digits(dt.day, 2), mon |-> MonthAbbr[dt.month],
     year |-> IF padded THEN Digits(dt.year, 4) ELSE Digits(dt.year, Width(dt.year)),
     hour |-> Digits(dt.hour, 2), minute |-> Digits(dt.minute, 2)]

(* datetime.strptime(s, "%d %b %Y %H:%M"): %d, %H, %M take one or two digits,
   %Y takes exactly four, %b a month abbreviation; the seconds are 0. *)
strptime_out(t) ==
    IF /\ t.shape = "ui"
       /\ Len(t.day) \in 1..2 /\ Len(t.hour) \in 1..2 /\ Len(t.minute) \in 1..2
       /\ Len(t.year) = 4
       /\ \E m \in 1..12 : MonthAbbr[m] = t.mon
    THEN DateOf(Value(t.year), CHOOSE m \in 1..12 : MonthAbbr[m] = t.mon,
                Value(t.day), Value(t.hour), Value(t.minute), 0)
    ELSE NoDate

(* format_datetime: "" unless 14 characters; the text itself when strptime
   raises. *)
format_datetime(t, padded) ==
    IF t.shape = "empty" \/ Len(t.digits) # 14 THEN EmptyText
    ELSE IF strptime_api(t).ok THEN strftime_out(strptime_api(t), padded)
    ELSE t

(* standardize_date: the input formats in their order (the two with seconds
   or dashes match none of these texts), each followed by strftime; the
   original text when none parses. *)
standardize_date(t, padded) ==
    IF t.shape = "empty" THEN EmptyText
    ELSE IF strptime_out(t).ok THEN strftime_out(strptime_out(t), padded)
    ELSE IF strptime_api(t).ok THEN strftime_out(strptime_api(t), padded)
    ELSE t

(* Inputs: valid 14-digit timestamps over these field values. *)
StampYears   == {999, 2024, 2025}
StampDays    == {1, 9, 28, 29, 30, 31}
StampHours   == {0, 9, 13, 23}
StampMinutes == {0, 5, 59}
StampSeconds == {0, 59}
Stamps ==
    { ApiText(Digits(y, 4) \o Digits(m, 2) \o Digits(d, 2) \o Digits(h, 2)
              \o Digits(mi, 2) \o Digits(sec, 2)) :
        y \in StampYears, m \in 1..12, d \in StampDays, h \in StampHours,
        mi \in StampMinutes, sec \in StampSeconds }

DateInit ==
    /\ stamp \in {t \in Stamps : strptime_api(t).ok}
    /\ padY \in BOOLEAN
    /\ dpc = "start"
    /\ dtext = EmptyText /\ dtext2 = EmptyText /\ reparsed = NoDate

DateIdle ==
    /\ stamp = EmptyText /\ padY = TRUE /\ dpc = "start"
    /\ dtext = EmptyText /\ dtext2 = EmptyText /\ reparsed = NoDate


DateFrame == UNCHANGED <<syncVars, upVars, jobVars, lockVars, loginVars, otpVars, tabVars>>

(* format_datetime(stamp) *)
FormatDatetime ==
    /\ dpc = "start"
    /\ dtext' = format_datetime(stamp, padY)
    /\ dpc' = "formatted"
    /\ UNCHANGED <<stamp, padY, reparsed, dtext2>>
    /\ DateFrame

(* standardize_date(stamp) *)
StandardizeDate ==
    /\ dpc = "start"
    /\ dtext' = standardize_date(stamp, padY)
    /\ dpc' = "formatted"
    /\ UNCHANGED <<stamp, padY, reparsed, dtext2>>
    /\ DateFrame

(* The output is parsed with the output format. *)
Reparse ==
    /\ dpc = "formatted"
    /\ reparsed' = strptime_out(dtext)
    /\ dpc' = "parsed"
    /\ UNCHANGED <<stamp, padY, dtext, dtext2>>
    /\ DateFrame

(* standardize_date applied to the output. *)
StandardizeAgain ==
    /\ dpc = "parsed"
    /\ dtext2' = standardize_date(dtext, padY)
    /\ dpc' = "again"
    /\ UNCHANGED <<stamp, padY, dtext, reparsed>>
    /\ DateFrame

DateNext ==
    \/ FormatDatetime
    \/ StandardizeDate
    \/ Reparse
    \/ StandardizeAgain

(* The date and time of the stamp with the seconds dropped. *)
MinuteOf(t) == [strptime_api(t) EXCEPT !.second = 0]

(* C23 as stated: for every valid 14-digit timestamp, the formatted text
   parsed with "%d %b %Y %H:%M" gives the stamp's year, month, day, hour and
   minute (seconds discarded), and standardize_date applied to its own output
   returns it unchanged. *)
C23_RoundTripAll ==
    /\ dpc \in {"parsed", "again"} => reparsed = MinuteOf(stamp)
    /\ dpc = "again" => dtext2 = dtext

(* C23 amended: the same for every valid 14-digit timestamp whose year is
   1000 or later. *)
C23_RoundTrip ==
    /\ (dpc \in {"parsed", "again"} /\ strptime_api(stamp).year >= 1000) =>
           reparsed = MinuteOf(stamp)
    /\ dpc = "again" => dtext2 = dtext

(* C23 witness: a stamp of a leap day in the afternoon with non-zero seconds
   went through formatting, parsing and a second standardization. *)
C23_Witness ==
    /\ dpc = "again"
    /\ strptime_api(stamp).ok /\ strptime_api(stamp).second = 59
    /\ strptime_api(stamp).month = 2 /\ strptime_api(stamp).day = 29
    /\ strptime_api(stamp).hour = 13
    /\ reparsed.ok /\ reparsed.second = 0 /\ reparsed.hour = 13

-----------------------------------------------------------------------------
(* The OTP readers: get_latest_otp of telegram_otp_reader.py and of
   GmailOTPReader (gmail_otp_reader.py).  A message is [ts, code]; code is
   what _extract_otp finds in its text, "" when it finds nothing. *)

MaxWait  == 10    \* max_wait passed to get_latest_otp, seconds
MaxInbox == 3     \* messages in the inbox

(* cutoff_timestamp = search_start_time - 15 *)
CutoffSlack == 15
(* get_messages(CHAT_ID, limit=10) and list(..., maxResults=5) *)
TelegramLimit == 10
GmailLimit == 5
(* The query's newer_than:2m *)
NewerThan == 120

(* The time the polling starts in the model. *)
PollStart == 130

(* The freshness test of the loop: `msg_timestamp < cutoff_timestamp` and
   `msg_timestamp < start_time` skip the message. *)
IsFreshMut(r, ts, started) == TRUE
IsFresh(r, ts, started) ==
    IF r = "telegram" THEN ~(ts < started - CutoffSlack) ELSE ~(ts < started)

RECURSIVE Reverse(_)
Reverse(q) == IF q = <<>> THEN <<>> ELSE Reverse(Tail(q)) \o <<Head(q)>>

(* The newest `limit` messages, newest first. *)
Newest(q, limit) ==
    Reverse(IF Len(q) <= limit THEN q ELSE SubSeq(q, Len(q) - limit + 1, Len(q)))

(* The messages one check of the inbox iterates over. *)
Fetched(r, q, t) ==
    IF r = "telegram" THEN Newest(q, TelegramLimit)
    ELSE Newest(SelectSeq(q, LAMBDA m : m.ts > t - NewerThan), GmailLimit)

(* The messages of a check that pass the freshness test and carry a code:
   the loop returns the code of the first one. *)
Accepted(r, q, t, started) ==
    SelectSeq(Fetched(r, q, t), LAMBDA m : IsFresh(r, m.ts, started) /\ m.code # "")

(* The pause after a check that found nothing. *)
SleepAfter(r, elapsed) ==
    IF r = "telegram" THEN 5
    ELSE IF elapsed < 60 THEN 3 ELSE IF elapsed < 300 THEN 10 ELSE 30

Msg(ts, code) == [ts |-> ts, code |-> code]

(* Inboxes at the start of the polling: empty, or holding older messages (an
   earlier login's code, a message without a code), up to the second of the
   start. *)
InitInboxes ==
    { <<>>,
      << Msg(5, "111111") >>,
      << Msg(114, "111111") >>,
      << Msg(115, "111111") >>,
      << Msg(114, "111111"), Msg(129, "222222") >>,
      << Msg(129, "111111"), Msg(130, "") >>,
      << Msg(100, "111111"), Msg(130, "222222") >> }

OtpInit ==
    /\ reader \in {"telegram", "gmail"}
    /\ inbox \in InitInboxes
    /\ oclock = PollStart
    /\ start_time = PollStart
    /\ opc = "loop"
    /\ otp = "none" /\ otpTs = 0 /\ polls = 0

OtpIdle ==
    /\ reader = "telegram" /\ inbox = <<>> /\ oclock = 0 /\ start_time = 0
    /\ opc = "idle" /\ otp = "none" /\ otpTs = 0 /\ polls = 0


OtpFrame == UNCHANGED <<syncVars, upVars, jobVars, lockVars, loginVars, dateVars, tabVars>>

Polling == opc = "loop" /\ oclock - start_time < MaxWait

(* A message arrives while the reader is waiting. *)
Arrive(code) ==
    /\ opc = "loop"
    /\ Len(inbox) < MaxInbox
    /\ inbox' = Append(inbox, Msg(oclock, code))
    /\ UNCHANGED <<reader, oclock, start_time, opc, otp, otpTs, polls>>
    /\ OtpFrame

(* A check finds a fresh message with a code: return it. *)
PollFound ==
    /\ Polling
    /\ Accepted(reader, inbox, oclock, start_time) # <<>>
    /\ otp' = Head(Accepted(reader, inbox, oclock, start_time)).code
    /\ otpTs' = Head(Accepted(reader, inbox, oclock, start_time)).ts
    /\ polls' = polls + 1
    /\ opc' = "done"
    /\ UNCHANGED <<reader, inbox, oclock, start_time>>
    /\ OtpFrame

(* A check finds none: sleep and go round the loop. *)
PollNothing ==
    /\ Polling
    /\ Accepted(reader, inbox, oclock, start_time) = <<>>
    /\ polls' = polls + 1
    /\ oclock' = oclock + SleepAfter(reader, oclock - start_time)
    /\ UNCHANGED <<reader, inbox, start_time, opc, otp, otpTs>>
    /\ OtpFrame

(* A check raises: the Telegram reader leaves the loop and returns None, the
   Gmail reader sleeps 5 seconds and goes on. *)
PollRaises ==
    /\ Polling
    /\ polls' = polls + 1
    /\ IF reader = "telegram"
       THEN opc' = "done" /\ UNCHANGED oclock
       ELSE opc' = opc /\ oclock' = oclock + 5
    /\ UNCHANGED <<reader, inbox, start_time, otp, otpTs>>
    /\ OtpFrame

(* The loop condition fails: "No NEW OTP received within limit". *)
PollTimeout ==
    /\ opc = "loop"
    /\ ~(oclock - start_time < MaxWait)
    /\ opc' = "done"
    /\ UNCHANGED <<reader, inbox, oclock, start_time, otp, otpTs, polls>>
    /\ OtpFrame

OtpNext ==
    \/ \E code \in {"", "333333"} : Arrive(code)
    \/ PollFound
    \/ PollNothing
    \/ PollRaises
    \/ PollTimeout

(* C24: a code returned by a reader comes from a message that carries it and
   did not arrive before the polling started (Telegram: not more than 15
   seconds before the start; Gmail: not before the start), whatever older
   messages the inbox holds; nothing is returned before a check of the inbox,
   and None is returned when the reader's checks found no such message. *)
C24_OnlyFreshOtp ==
    /\ otp # "none" =>
           /\ opc = "done" /\ polls >= 1
           /\ \E i \in 1..Len(inbox) : inbox[i] = Msg(otpTs, otp)
           /\ otpTs >= start_time - (IF reader = "telegram" THEN CutoffSlack ELSE 0)
    /\ (opc = "done" /\ \A i \in 1..Len(inbox) :
            inbox[i].code = ""
            \/ inbox[i].ts < start_time - (IF reader = "telegram" THEN CutoffSlack ELSE 0))
           => otp = "none"

(* C24 witness: the inbox held an older code when the polling started, a new
   code arrived during the wait, and the reader returned the new one after
   more than one check. *)
C24_Witness ==
    /\ opc = "done" /\ otp = "333333" /\ polls >= 2
    /\ otpTs > start_time
    /\ \E i \in 1..Len(inbox) : inbox[i].code = "111111" /\ inbox[i].ts < start_time - CutoffSlack

-----------------------------------------------------------------------------
(* gsheets_writer.py: ensure_tab *)

HEADERS == <<"Order Number", "Order Status", "Created Date", "Updated Date",
             "Name", "Email", "Phone Number", "Appointment Date", "Address",
             "Package", "IC Number", "Creator", "Last Synced">>

(* The month tabs the model works on. *)
Titles == {"Oct 2025", "Nov 2025"}

(* The orders whose rows the tabs may hold. *)
TabOrders == {O1, O2}

WorksheetNotFound == [exists |-> FALSE, first |-> <<>>, rows |-> <<>>]

Worksheet(first, rows) == [exists |-> TRUE, first |-> first, rows |-> rows]

RECURSIVE row_values(_)
(* ws.row_values(1): the cells of the row without its trailing empty cells. *)
row_values(cells) ==
    IF cells # <<>> /\ cells[Len(cells)] = ""
    THEN row_values(SubSeq(cells, 1, Len(cells) - 1))
    ELSE cells

(* ws.update([HEADERS]): writes the range that starts at A1; cells to the
   right of the written range keep their value. *)
UpdateFirst(cells, values) ==
    [i \in 1..(IF Len(cells) > Len(values) THEN Len(cells) ELSE Len(values)) |->
        IF i <= Len(values) THEN values[i] ELSE cells[i]]

(* ensure_tab, all calls succeeding: a missing tab is added and gets the
   header appended; a first row other than HEADERS makes it resize(1) and
   write the header; the formatting calls change no value. *)
ensure_tabMut(wsheet) ==
    Worksheet(UpdateFirst(wsheet.first, HEADERS), <<>>)
ensure_tab(wsheet) ==
    LET ws == IF wsheet.exists THEN wsheet ELSE Worksheet(HEADERS, <<>>)
    IN IF row_values(ws.first) # HEADERS
       THEN Worksheet(UpdateFirst(ws.first, HEADERS), <<>>)
       ELSE ws

(* What the tab may be when a gspread call of ensure_tab raises: the call
   that raised did nothing, the calls before it are done. *)
RaisedStates(wsheet) ==
    IF ~wsheet.exists
    THEN {wsheet, Worksheet(<<>>, <<>>), Worksheet(HEADERS, <<>>)}
    ELSE IF row_values(wsheet.first) # HEADERS
         THEN {wsheet, Worksheet(wsheet.first, <<>>), ensure_tab(wsheet)}
         ELSE {wsheet}

(* First rows a tab may start with: the header, the header stored with a
   trailing blank cell, the twelve-column header of the versions without
   Last Synced, a header with a column added to its right by hand, and no
   first row at all (the tab was cleared). *)
InitFirstRows ==
    { HEADERS,
      HEADERS \o <<"">>,
      SubSeq(HEADERS, 1, 12),
      HEADERS \o <<"Notes">>,
      <<>> }

TabRow(o) == Row(o, CreatedDate(o), o, 1)

InitWorksheets ==
    {WorksheetNotFound}
    \cup {Worksheet(f, <<>>) : f \in InitFirstRows}
    \cup {Worksheet(f, <<TabRow(O1)>>) : f \in InitFirstRows \ {<<>>}}

NoCall == [title |-> "", before |-> WorksheetNotFound,
           after |-> WorksheetNotFound, outcome |-> "none"]

TabInit ==
    /\ tabs \in [Titles -> InitWorksheets]
    /\ call = NoCall

TabIdle ==
    /\ tabs = [title \in Titles |-> WorksheetNotFound]
    /\ call = NoCall

AuxIdle == DateIdle /\ OtpIdle /\ TabIdle

TabFrame == UNCHANGED <<syncVars, upVars, jobVars, lockVars, loginVars, dateVars, otpVars>>

(* ws = ensure_tab(spread, tab_title) returns. *)
EnsureTab(title) ==
    /\ tabs' = [tabs EXCEPT ![title] = ensure_tab(tabs[title])]
    /\ call' = [title |-> title, before |-> tabs[title],
                after |-> tabs'[title], outcome |-> "returned"]
    /\ TabFrame

(* A gspread call inside ensure_tab raises; the exception leaves ensure_tab. *)
EnsureTabRaises(title) ==
    /\ \E left \in RaisedStates(tabs[title]) :
          /\ tabs' = [tabs EXCEPT ![title] = left]
          /\ call' = [title |-> title, before |-> tabs[title],
                      after |-> left, outcome |-> "raised"]
    /\ TabFrame

(* upsert_rows(ws, [row_data]) on a tab ensure_tab returned. *)
TabUpsert(title, o) ==
    /\ tabs[title].exists
    /\ call.title = title /\ call.outcome = "returned"
    /\ tabs' = [tabs EXCEPT ![title].rows = upsert_rows(@, <<TabRow(o)>>)]
    /\ UNCHANGED call
    /\ TabFrame

(* sort_tab_by_created_date stops after ws.clear(): the tab is left without
   any value, its first row included. *)
TabCleared(title) ==
    /\ tabs[title].exists
    /\ call.title = title /\ call.outcome = "returned"
    /\ tabs' = [tabs EXCEPT ![title] = Worksheet(<<>>, <<>>)]
    /\ UNCHANGED call
    /\ TabFrame

TabNext ==
    \/ \E title \in Titles : EnsureTab(title)
    \/ \E title \in Titles : EnsureTabRaises(title)
    \/ \E title \in Titles, o \in TabOrders : TabUpsert(title, o)
    \/ \E title \in Titles : TabCleared(title)

(* C30: an ensure_tab call that returns leaves the tab exactly as it was when
   its first row equalled the thirteen-column header; it removes data rows
   only when the first row differed from the header, and then the tab is left
   with one row that carries the header; a tab that was missing is created
   holding the header row and nothing else.  A call that raises removes data
   rows only under the same condition. *)
C30_EnsureTabKeepsRows ==
    /\ Len(HEADERS) = 13
    /\ call.outcome = "returned" =>
         /\ (call.before.exists /\ row_values(call.before.first) = HEADERS)
               => call.after = call.before
         /\ call.after.rows # call.before.rows =>
               /\ call.before.exists
               /\ row_values(call.before.first) # HEADERS
               /\ call.after.rows = <<>>
               /\ SubSeq(call.after.first, 1, 13) = HEADERS
         /\ ~call.before.exists => call.after = Worksheet(HEADERS, <<>>)
    /\ call.outcome = "raised" =>
         (call.after.rows # call.before.rows =>
              call.before.exists /\ row_values(call.before.first) # HEADERS)

(* C30 witnesses: ensure_tab returned on a tab whose first row is the header
   and which holds data rows, and left them there. *)
C30_Witness ==
    /\ call.outcome = "returned"
    /\ call.before.exists
    /\ row_values(call.before.first) = HEADERS
    /\ call.before.rows # <<>>
    /\ call.after.rows = call.before.rows

(* ensure_tab returned on a tab with another first row and removed its rows. *)
C30_WitnessTruncated ==
    /\ call.outcome = "returned"
    /\ call.before.exists
    /\ row_values(call.before.first) # HEADERS
    /\ call.before.rows # <<>>
    /\ call.after.rows = <<>>

(* ensure_tab returned on a missing tab. *)
C30_WitnessCreated ==
    /\ call.outcome = "returned"
    /\ ~call.before.exists
    /\ call.after = Worksheet(HEADERS, <<>>)

-----------------------------------------------------------------------------
(* Specifications *)

(* The sync runs. *)
Init == SyncInit /\ UpsertIdle /\ JobsIdle /\ LockIdle /\ LoginIdle /\ AuxIdle
Next == SyncNext
Spec == Init /\ [][Next]_vars

SyncIdle == SyncInit /\ sheet = <<>>

(* upsert_rows on bounded tabs and rows. *)
InitUpsert == SyncIdle /\ UpsertInit /\ JobsIdle /\ LockIdle /\ LoginIdle /\ AuxIdle
SpecUpsert == InitUpsert /\ [][UpsertNext]_vars

(* Concurrent POST /jobs requests and their workers. *)
InitJobs == SyncIdle /\ UpsertIdle /\ JobsInit /\ LockIdle /\ LoginIdle /\ AuxIdle
SpecJobs == InitJobs /\ [][JobsNext]_vars

(* The same, with the workers scheduled fairly. *)
SpecJobsLive == InitJobs /\ [][JobsNext]_vars /\ JobsFairness

(* Concurrent POST /scrape_full requests. *)
InitLock == SyncIdle /\ UpsertIdle /\ JobsIdle /\ LockInit /\ LoginIdle /\ AuxIdle
SpecLock == InitLock /\ [][LockNext]_vars

(* Date texts through the formatters. *)
InitDates == SyncIdle /\ UpsertIdle /\ JobsIdle /\ LockIdle /\ LoginIdle /\ DateInit /\ OtpIdle /\ TabIdle
SpecDates == InitDates /\ [][DateNext]_vars

(* The OTP readers polling their inbox. *)
InitOtp == SyncIdle /\ UpsertIdle /\ JobsIdle /\ LockIdle /\ LoginIdle /\ DateIdle /\ OtpInit /\ TabIdle
SpecOtp == InitOtp /\ [][OtpNext]_vars

(* ensure_tab and the writers of a tab. *)
InitTab == SyncIdle /\ UpsertIdle /\ JobsIdle /\ LockIdle /\ LoginIdle /\ DateIdle /\ OtpIdle /\ TabInit
SpecTab == InitTab /\ [][TabNext]_vars

(* Logins over time. *)
InitLogin == SyncIdle /\ UpsertIdle /\ JobsIdle /\ LockIdle /\ LoginInit /\ AuxIdle
SpecLogin == InitLogin /\ [][LoginNext]_vars

====
